---- MODULE Spec2Model ----
(***************************************************************************)
(* Loot Decision Engine of rashad-malik/letmelcthatforyou:                 *)
(*   - candidate eligibility (tools/get_item_candidates.py),               *)
(*   - the per-item decision client, its retry loop and the session        *)
(*     allocation tracker (services/lc_processor.py),                      *)
(*   - the batch drivers (process_zone, GUI run_lc_processing).            *)
(* Python strings that the code compares or parses are modelled either as  *)
(* atoms (item and raider names) or as sequences of tokens (reply texts).  *)
(***************************************************************************)
EXTENDS Integers, Sequences, FiniteSets, TLC

(***************************************************************************)
(* Bounds of the model.                                                    *)
(***************************************************************************)
\* longest wishlist of the raider whose wishlist is enumerated in full
MaxWishLen == 2
\* most items in one batch run
MaxItems == 2
\* most batch runs and single-item lookups in one behaviour
MaxRuns == 2

(***************************************************************************)
(* Values of the data model.                                               *)
(***************************************************************************)
\* received_at of an entry without a parseable date (_parse_date returns None)
NoDate == 0
\* the reference date returned by get_reference_date(), as a day number
reference_date == 10
\* dates a wishlist entry may carry: before/on the reference date and after it
Dates == {NoDate, reference_date, reference_date + 1}

\* result of a lookup that finds nothing (Python None)
None == "<None>"

\* str.lower() on the item names of this model
Lower(s) ==
    CASE s \in {"Helm of the Fallen Defender", "HELM OF THE FALLEN DEFENDER"}
             -> "helm of the fallen defender"
      [] s = "Cataclysm Helm"     -> "cataclysm helm"
      [] s = "Destroyer Helm"     -> "destroyer helm"
      [] s = "Gloves of the Fallen Defender" -> "gloves of the fallen defender"
      [] s = "Cataclysm Gloves"   -> "cataclysm gloves"
      [] s = "Verdant Sphere"     -> "verdant sphere"
      [] s = "Sun King Pendant"   -> "sun king pendant"
      [] s = "Band of Ruin"       -> "band of ruin"
      [] OTHER -> s

\* tokens.json, tier-token part: tier groups flattened in file order
TierTokens ==
    << [token_name |-> "Helm of the Fallen Defender", ilvl |-> 120, slot |-> "Head",
        compatible_items |-> <<"Cataclysm Helm", "Destroyer Helm">>,
        tier_version |-> "Tier 5"],
       [token_name |-> "Gloves of the Fallen Defender", ilvl |-> 120, slot |-> "Hands",
        compatible_items |-> <<"Cataclysm Gloves">>,
        tier_version |-> "Tier 5"] >>

\* tokens.json, "exchange_items_tbc" part, in file order
ExchangeItems ==
    << [source_name |-> "Verdant Sphere", ilvl |-> 141,
        items |-> <<"Sun King Pendant">>] >>

\* _shared_cache.items_by_id of the Nexus catalog, in insertion order.
\* "Destroyer Helm" is listed by tokens.json but absent from the catalog.
Catalog ==
    << [itemId |-> 1, name |-> "Helm of the Fallen Defender", itemLevel |-> 70, slot |-> None],
       [itemId |-> 2, name |-> "Cataclysm Helm", itemLevel |-> 133, slot |-> "Head"],
       [itemId |-> 3, name |-> "Gloves of the Fallen Defender", itemLevel |-> 70, slot |-> None],
       [itemId |-> 4, name |-> "Cataclysm Gloves", itemLevel |-> 133, slot |-> "Hands"],
       [itemId |-> 5, name |-> "Verdant Sphere", itemLevel |-> 70, slot |-> "Neck"],
       [itemId |-> 6, name |-> "Sun King Pendant", itemLevel |-> 141, slot |-> "Neck"],
       [itemId |-> 7, name |-> "Band of Ruin", itemLevel |-> 141, slot |-> "Finger"] >>

\* item names given to the engine
ItemNames ==
    {"HELM OF THE FALLEN DEFENDER", "Cataclysm Helm", "Destroyer Helm",
     "Sun King Pendant", "Band of Ruin", "No Such Item"}

\* rows of the wishlist table, in table order
RaiderOrder == <<"Alice", "Bob", "Cara">>
Raiders == {RaiderOrder[i] : i \in 1..Len(RaiderOrder)}
\* the raider whose wishlist is enumerated up to MaxWishLen entries
RichRaider == "Alice"

\* wishlist entries as produced by _transform_wishlist_entry
WishEntry(id, ord, os, isr, at) ==
    [item_id |-> id, order |-> ord, is_offspec |-> os, is_received |-> isr,
     received_at |-> at]

\* entries of the other raiders: wanted token, wanted compatible item,
\* compatible item received on the reference date
BasicEntries ==
    { WishEntry(1, 1, FALSE, FALSE, NoDate),
      WishEntry(2, 2, TRUE, FALSE, NoDate),
      WishEntry(2, 1, FALSE, TRUE, reference_date) }

\* entries of the rich raider: the basic ones, a flag without a date, a
\* receipt dated after the reference date, and an item outside the group
WishEntries ==
    BasicEntries \cup
    { WishEntry(1, 3, FALSE, TRUE, NoDate),
      WishEntry(2, 2, FALSE, TRUE, reference_date + 1),
      WishEntry(7, 1, FALSE, FALSE, NoDate) }

SeqsUpTo(S, n) == UNION { [1..k -> S] : k \in 0..n }

WishlistsOf(r) ==
    IF r = RichRaider THEN SeqsUpTo(WishEntries, MaxWishLen)
    ELSE SeqsUpTo(BasicEntries, 1)

\* config.get_wcl_client_version().strip().lower()
ClientVersions == {"tbc", "fresh"}

(***************************************************************************)
(* State.                                                                  *)
(***************************************************************************)
VARIABLES
    wishlists,        \* TMB wishlist table: raider -> sequence of entries
    profile_is_alt,   \* TMB profile table: raider -> is_alt
    config,           \* configuration: show_alt_status, client_version
    cand,             \* last result of generate_checking_candidates
    session_allocations, \* LootCouncilProcessor.session_allocations (a dict)
    recorded,         \* record_allocation calls per name since the last reset
    driver,           \* who is calling process_item: none, zone, gui, single
    phase,            \* position of the batch driver in its loop
    items,            \* the items of the running batch
    decisions,        \* the decisions list of the batch driver
    broke,            \* the batch loop was left through its cancellation break
    cancel_requested, \* run_lc._cancel_requested
    runs,             \* batch runs and single lookups started so far
    pi,               \* position inside process_item
    call,             \* arguments and locals of the running process_item call
    decision,         \* the LootDecision returned by the last process_item
    pure              \* argument and result of the pure function under study

procVars == <<session_allocations, recorded, driver, phase, items, decisions,
              broke, cancel_requested, runs, pi, call, decision>>
vars == <<wishlists, profile_is_alt, config, cand, session_allocations, recorded,
          driver, phase, items, decisions, broke, cancel_requested, runs, pi,
          call, decision, pure>>

(***************************************************************************)
(* Item Catalog Resolver.                                                  *)
(***************************************************************************)
\* an id lookup that finds nothing (Python None; 0 is falsy like None)
NoId == 0

RECURSIVE get_item_id_from(_, _)
get_item_id_from(item_name, i) ==
    IF i > Len(Catalog) THEN NoId
    ELSE IF Lower(Catalog[i].name) = Lower(item_name) THEN Catalog[i].itemId
    ELSE get_item_id_from(item_name, i + 1)

\* NexusItemManager.get_item_id: first catalog record with that name
get_item_id(item_name) == get_item_id_from(item_name, 1)

\* NexusItemManager.get_item: index of the record in the catalog, 0 if absent
get_item(item_id) ==
    IF \E i \in 1..Len(Catalog) : Catalog[i].itemId = item_id
    THEN CHOOSE i \in 1..Len(Catalog) : Catalog[i].itemId = item_id
    ELSE 0

get_item_level(item_id) ==
    IF get_item(item_id) = 0 THEN 0 ELSE Catalog[get_item(item_id)].itemLevel

get_item_slot(item_id) ==
    IF get_item(item_id) = 0 THEN None ELSE Catalog[get_item(item_id)].slot

\* does the token carry that name, as its own or as a compatible item's
TokenMatches(token, item_name) ==
    \/ Lower(token.token_name) = Lower(item_name)
    \/ \E j \in 1..Len(token.compatible_items) :
          Lower(token.compatible_items[j]) = Lower(item_name)

RECURSIVE find_tier_token_from(_, _)
find_tier_token_from(item_name, i) ==
    IF i > Len(TierTokens) THEN 0
    ELSE IF TokenMatches(TierTokens[i], item_name) THEN i
    ELSE find_tier_token_from(item_name, i + 1)

\* only the name of the token itself is recognised
find_tier_token_TokenNameOnly(item_name) ==
    IF \E i \in 1..Len(TierTokens) : Lower(TierTokens[i].token_name) = Lower(item_name)
    THEN CHOOSE i \in 1..Len(TierTokens) :
             Lower(TierTokens[i].token_name) = Lower(item_name)
    ELSE 0

\* find_tier_token_with_version: index in TierTokens of the first token whose
\* group holds the name, 0 if none
find_tier_token_with_version(item_name) == find_tier_token_from(item_name, 1)

ExchangeMatches(ex, item_name) ==
    \/ Lower(ex.source_name) = Lower(item_name)
    \/ \E j \in 1..Len(ex.items) : Lower(ex.items[j]) = Lower(item_name)

RECURSIVE find_exchange_item_from(_, _)
find_exchange_item_from(item_name, i) ==
    IF i > Len(ExchangeItems) THEN 0
    ELSE IF ExchangeMatches(ExchangeItems[i], item_name) THEN i
    ELSE find_exchange_item_from(item_name, i + 1)

\* find_exchange_item: index in ExchangeItems, 0 if none
find_exchange_item(item_name) == find_exchange_item_from(item_name, 1)

\* only the first name of the group, the token itself, is looked up
KnownIds_TokenOnly(names) ==
    IF names = <<>> \/ get_item_id(Head(names)) = NoId THEN <<>>
    ELSE <<get_item_id(Head(names))>>

\* ids of the names that the catalog knows, in the order of the names
\* (the "if token_id:" / "if compatible_id:" guards)
RECURSIVE KnownIds(_)
KnownIds(names) ==
    IF names = <<>> THEN <<>>
    ELSE LET id == get_item_id(Head(names))
         IN  (IF id = NoId THEN <<>> ELSE <<id>>) \o KnownIds(Tail(names))

SeqToSet(s) == {s[i] : i \in 1..Len(s)}

\* only the id of the input name is looked for
ItemIdsToCheck_OwnIdOnly(group, item_id) == <<item_id>>

\* the ids of the group; "if not item_ids_to_check: item_ids_to_check = [item_id]"
ItemIdsToCheck(group, item_id) == IF group = <<>> THEN <<item_id>> ELSE group

\* the resolution of an item name: tag, id of the name itself, id group
ResolveItem(item_name, client_version) ==
    LET tbc     == client_version \in {"tbc", "tbc anniversary"}
        tok     == IF tbc THEN find_tier_token_with_version(item_name) ELSE 0
        exch    == IF tbc /\ tok = 0 THEN find_exchange_item(item_name) ELSE 0
        group   == IF tok # 0
                   THEN KnownIds(<<TierTokens[tok].token_name>>
                                 \o TierTokens[tok].compatible_items)
                   ELSE IF exch # 0
                   THEN KnownIds(<<ExchangeItems[exch].source_name>>
                                 \o ExchangeItems[exch].items)
                   ELSE <<>>
        item_id == get_item_id(item_name)
    IN  [ found   |-> item_id # NoId,
          tag     |-> IF tok # 0 THEN "TOKEN"
                      ELSE IF exch # 0 THEN "EXCHANGE" ELSE "SINGLE",
          token   |-> tok,
          item_id |-> item_id,
          item_ids_to_check |-> ItemIdsToCheck(group, item_id),
          item_ilvl |-> IF tok # 0 THEN TierTokens[tok].ilvl
                        ELSE IF exch # 0 THEN ExchangeItems[exch].ilvl
                        ELSE get_item_level(item_id),
          item_slot |-> IF tok # 0 THEN TierTokens[tok].slot
                        ELSE get_item_slot(item_id) ]

\* a receipt on the reference date itself does not count
ReceivedByDate_Strict(wish_item) ==
    wish_item.received_at # NoDate /\ wish_item.received_at < reference_date

(***************************************************************************)
(* Candidate Eligibility Engine.                                           *)
(***************************************************************************)
\* "received_at is not None and received_at <= reference_date"
ReceivedByDate(wish_item) ==
    wish_item.received_at # NoDate /\ wish_item.received_at <= reference_date

\* the flag alone never marks an entry as received
ReceivedByFlag_Never(wish_item) == FALSE

\* "wish_item.get('is_received') and received_at is None"
ReceivedByFlag(wish_item) ==
    wish_item.is_received /\ wish_item.received_at = NoDate

\* the loop keeps the last entry that counts instead of breaking at the first
ScanWishlist_Last(wishlist, i, ids) ==
    LET S == {j \in i..Len(wishlist) :
                 /\ wishlist[j].item_id \in ids
                 /\ ~ReceivedByDate(wishlist[j])
                 /\ ~ReceivedByFlag(wishlist[j])}
    IN  IF S = {} THEN 0 ELSE CHOOSE j \in S : \A k \in S : k <= j

\* the wishlist loop of one raider: index of the entry at which the loop
\* breaks, 0 when it runs to the end
RECURSIVE ScanWishlist(_, _, _)
ScanWishlist(wishlist, i, ids) ==
    IF i > Len(wishlist) THEN 0
    ELSE IF wishlist[i].item_id \notin ids THEN ScanWishlist(wishlist, i + 1, ids)
    ELSE IF ReceivedByDate(wishlist[i]) THEN ScanWishlist(wishlist, i + 1, ids)
    ELSE IF ReceivedByFlag(wishlist[i]) THEN ScanWishlist(wishlist, i + 1, ids)
    ELSE i

\* the loop over the rows of the wishlist table
RECURSIVE EligibleRaiders(_, _, _, _)
EligibleRaiders(W, alts, ids, k) ==
    IF k > Len(RaiderOrder) THEN <<>>
    ELSE LET r == RaiderOrder[k]
             i == ScanWishlist(W[r], 1, ids)
         IN  (IF i = 0 THEN <<>>
              ELSE << [name |-> r,
                       wishlist_order |-> W[r][i].order,
                       is_offspec |-> W[r][i].is_offspec,
                       is_alt |-> alts[r]] >>)
             \o EligibleRaiders(W, alts, ids, k + 1)

\* alts are never removed
AltFilter_KeepAll(eligible, show_alt_status) == eligible

\* "[r for r in eligible_raiders if not r['is_alt']]" when alts are hidden
RECURSIVE AltFilter(_, _)
AltFilter(eligible, show_alt_status) ==
    IF eligible = <<>> THEN <<>>
    ELSE (IF ~show_alt_status /\ Head(eligible).is_alt THEN <<>>
          ELSE <<Head(eligible)>>)
         \o AltFilter(Tail(eligible), show_alt_status)

\* the rows stay in the order of the wishlist table
SortByWishlistOrder_TableOrder(rows) == rows

\* insert a row behind the rows whose order is not larger
RECURSIVE InsertByOrder(_, _)
InsertByOrder(row, sorted) ==
    IF sorted = <<>> THEN <<row>>
    ELSE IF Head(sorted).wishlist_order <= row.wishlist_order
         THEN <<Head(sorted)>> \o InsertByOrder(row, Tail(sorted))
         ELSE <<row>> \o sorted

\* candidates_df.sort_values("Wishlist Order")
RECURSIVE SortByWishlistOrder(_)
SortByWishlistOrder(rows) ==
    IF rows = <<>> THEN <<>>
    ELSE InsertByOrder(rows[Len(rows)],
                       SortByWishlistOrder(SubSeq(rows, 1, Len(rows) - 1)))

\* generate_checking_candidates: raised = the ValueError of an unknown item
generate_checking_candidates(item_name, W, alts, cfg) ==
    LET res      == ResolveItem(item_name, cfg.client_version)
        eligible == AltFilter(
                        EligibleRaiders(W, alts, SeqToSet(res.item_ids_to_check), 1),
                        cfg.show_alt_status)
    IN  [ called     |-> TRUE,
          raised     |-> ~res.found,
          item_name  |-> item_name,
          tag        |-> res.tag,
          item_id    |-> res.item_id,
          item_ids_to_check |-> IF res.found THEN res.item_ids_to_check ELSE <<>>,
          item_slot  |-> IF res.found THEN res.item_slot ELSE None,
          item_ilvl  |-> IF res.found THEN res.item_ilvl ELSE 0,
          candidates |-> IF res.found THEN SortByWishlistOrder(eligible) ELSE <<>> ]

\* no call of generate_checking_candidates has been made yet
NoResult ==
    [ called |-> FALSE, raised |-> FALSE, item_name |-> None, tag |-> None,
      item_id |-> NoId, item_ids_to_check |-> <<>>, item_slot |-> None,
      item_ilvl |-> 0, candidates |-> <<>> ]

(***************************************************************************)
(* Response Parser: texts are sequences of tokens; a token is a word, a    *)
(* digit, a colon, a blank or a newline.                                   *)
(***************************************************************************)
Whitespace == {" ", "\n", "\t"}
\* the character class [:\s]
Separators == Whitespace \cup {":"}
\* re.IGNORECASE on the two labels
SuggestionWords == {"Suggestion", "suggestion", "SUGGESTION"}
RationaleWords == {"Rationale", "rationale", "RATIONALE"}

\* first position from p on whose token is outside S, Len(t) + 1 if none
SkipWhile(t, p, S) ==
    CHOOSE k \in p..(Len(t) + 1) :
        /\ (k = Len(t) + 1 \/ t[k] \notin S)
        /\ \A j \in p..(k - 1) : t[j] \in S

\* first position from p on whose token is a newline, Len(t) + 1 if none
SkipToNewline(t, p) ==
    CHOOSE k \in p..(Len(t) + 1) :
        /\ (k = Len(t) + 1 \/ t[k] = "\n")
        /\ \A j \in p..(k - 1) : t[j] # "\n"

Max(S) == CHOOSE x \in S : \A y \in S : y <= x
Min(S) == CHOOSE x \in S : \A y \in S : x <= y

\* str.strip()
Strip(t) ==
    LET keep == {i \in 1..Len(t) : t[i] \notin Whitespace}
    IN  IF keep = {} THEN <<>> ELSE SubSeq(t, Min(keep), Max(keep))

\* start positions of group 1 of  Suggestion\s*<digit>[:\s]+([^\n]+)  matched
\* at position i: the separators are taken greedily, at least one token that
\* is not a newline is left for the group
SuggestionGroupStarts(t, i, digit) ==
    IF t[i] \notin SuggestionWords THEN {}
    ELSE LET j == SkipWhile(t, i + 1, Whitespace)
         IN  IF j > Len(t) \/ t[j] # digit THEN {}
             ELSE LET e == SkipWhile(t, j + 1, Separators)
                  IN  {q \in (j + 2)..e : q <= Len(t) /\ t[q] # "\n"}

\* without a match the field is the stripped text
SuggestionField_WholeText(t, digit) ==
    LET starts == {i \in 1..Len(t) : SuggestionGroupStarts(t, i, digit) # {}}
    IN  IF starts = {} THEN Strip(t)
        ELSE LET q == Max(SuggestionGroupStarts(t, Min(starts), digit))
             IN  Strip(SubSeq(t, q, SkipToNewline(t, q) - 1))

\* re.search(r'Suggestion\s*<digit>[:\s]+([^\n]+)', text, re.IGNORECASE):
\* group 1 of the leftmost match, stripped; "" without a match
SuggestionField(t, digit) ==
    LET starts == {i \in 1..Len(t) : SuggestionGroupStarts(t, i, digit) # {}}
    IN  IF starts = {} THEN <<>>
        ELSE LET q == Max(SuggestionGroupStarts(t, Min(starts), digit))
             IN  Strip(SubSeq(t, q, SkipToNewline(t, q) - 1))

\* start positions of group 1 of  Rationale[:\s]+(.+)  (DOTALL) matched at i
RationaleGroupStarts(t, i) ==
    IF t[i] \notin RationaleWords THEN {}
    ELSE LET e == SkipWhile(t, i + 1, Separators)
         IN  {q \in (i + 2)..e : q <= Len(t)}

\* without re.DOTALL the group ends at the first newline
RationaleField_FirstLine(t) ==
    LET starts == {i \in 1..Len(t) : RationaleGroupStarts(t, i) # {}}
    IN  IF starts = {} THEN <<>>
        ELSE LET q == Max(RationaleGroupStarts(t, Min(starts)))
             IN  Strip(SubSeq(t, q, SkipToNewline(t, q) - 1))

\* re.search(r'Rationale[:\s]+(.+)', text, re.IGNORECASE | re.DOTALL)
RationaleField(t) ==
    LET starts == {i \in 1..Len(t) : RationaleGroupStarts(t, i) # {}}
    IN  IF starts = {} THEN <<>>
        ELSE Strip(SubSeq(t, Max(RationaleGroupStarts(t, Min(starts))), Len(t)))

\* no error on a decision (error=None)
NoError == [prefix |-> "", detail |-> ""]

\* LootCouncilProcessor._parse_response
_parse_response(response_text, item_name, item_slot) ==
    [ item_name    |-> item_name,
      item_slot    |-> item_slot,
      suggestion_1 |-> SuggestionField(response_text, "1"),
      suggestion_2 |-> SuggestionField(response_text, "2"),
      suggestion_3 |-> SuggestionField(response_text, "3"),
      rationale    |-> RationaleField(response_text),
      success      |-> TRUE,
      error        |-> NoError ]

\* the LootDecision built on every failure path of process_item
FailedDecision(item_name, item_slot, error) ==
    [ item_name    |-> item_name,
      item_slot    |-> item_slot,
      suggestion_1 |-> <<>>,
      suggestion_2 |-> <<>>,
      suggestion_3 |-> <<>>,
      rationale    |-> <<>>,
      success      |-> FALSE,
      error        |-> error ]

\* a text in the fixed output format of the prompt
FormatReply(a, b, c, r) ==
    <<"Suggestion", " ", "1", ":", " ">> \o a \o <<"\n">> \o
    <<"Suggestion", " ", "2", ":", " ">> \o b \o <<"\n">> \o
    <<"Suggestion", " ", "3", ":", " ">> \o c \o <<"\n">> \o
    <<"Rationale", ":", " ">> \o r

\* replies of the model in the processor specification
ReplyTexts ==
    { FormatReply(<<"Alice">>, <<"Bob">>, <<"None">>, <<"Rule", " ", "1">>),
      FormatReply(<<"Cara">>, <<"Alice">>, <<"None">>, <<"Rule", " ", "2">>),
      <<"I", " ", "cannot", " ", "decide">> }

(***************************************************************************)
(* Session Allocation Tracker. A dict is a function on its set of keys;    *)
(* player names are texts, the name of raider r is the text <<r>>.         *)
(***************************************************************************)
EmptyDict == << >>

DictGet(d, k, default) == IF k \in DOMAIN d THEN d[k] ELSE default

\* the count is set, not incremented
record_allocation_Overwrite(allocations, player_name) ==
    IF player_name # <<>>
    THEN [k \in (DOMAIN allocations) \cup {player_name} |->
            IF k = player_name THEN 1 ELSE allocations[k]]
    ELSE allocations

\* the count goes up by two
record_allocation_Twice(allocations, player_name) ==
    IF player_name # <<>>
    THEN [k \in (DOMAIN allocations) \cup {player_name} |->
            IF k = player_name THEN DictGet(allocations, k, 0) + 2
            ELSE allocations[k]]
    ELSE allocations

\* LootCouncilProcessor.record_allocation
record_allocation(allocations, player_name) ==
    IF player_name # <<>>
    THEN [k \in (DOMAIN allocations) \cup {player_name} |->
            IF k = player_name THEN DictGet(allocations, k, 0) + 1
            ELSE allocations[k]]
    ELSE allocations

\* LootCouncilProcessor.get_candidate_allocations
get_candidate_allocations(allocations, candidate_names) ==
    [k \in {n \in DOMAIN allocations : n \in candidate_names /\ allocations[n] > 0}
        |-> allocations[k]]

(***************************************************************************)
(* Prompt Synthesizer, as far as the decision client depends on it.        *)
(***************************************************************************)
\* str(e) of ValueError(f"Item '{item_name}' not found in item database")
NotFoundError(item_name) ==
    [prefix |-> "Item not found in item database: ", detail |-> item_name]

\* an empty candidate table is reported with the message of a missing item
NoCandidatesError_AsNotFound(item_name) ==
    [prefix |-> "Item not found in item database: ", detail |-> item_name]

\* f"No eligible candidates found for {item_name}"
NoCandidatesError(item_name) ==
    [prefix |-> "No eligible candidates found for ", detail |-> item_name]

\* every entry of the table gets a line, candidate of the item or not
SessionLines_WholeTable(names, allocations) == allocations

\* the "Items assigned this session" lines of the candidate blocks:
\* `if raider_name in session_allocations` per candidate
SessionLines(names, allocations) ==
    [k \in {<<n>> : n \in names} \cap DOMAIN allocations |-> allocations[k]]

\* the body of get_item_candidates_prompt behind the call of
\* generate_checking_candidates; fault = an exception other than ValueError
PromptResult(item_name, allocations, result, fault) ==
    LET names == {result.candidates[i].name : i \in 1..Len(result.candidates)}
    IN  IF fault
        THEN [ success |-> FALSE, item_slot |-> None, session_lines |-> EmptyDict,
               error |-> [prefix |-> "Unexpected error: ", detail |-> "str(e)"],
               result |-> [result EXCEPT !.called = FALSE] ]
        ELSE IF result.raised
        THEN [ success |-> FALSE, item_slot |-> None, session_lines |-> EmptyDict,
               error |-> NotFoundError(item_name),
               result |-> result ]
        ELSE IF result.candidates = <<>>
        THEN [ success |-> FALSE, item_slot |-> result.item_slot,
               session_lines |-> EmptyDict,
               error |-> NoCandidatesError(item_name),
               result |-> result ]
        ELSE [ success |-> TRUE, item_slot |-> result.item_slot,
               session_lines |-> SessionLines(names, allocations),
               error |-> NoError,
               result |-> result ]

\* get_item_candidates_prompt(item_name, session_allocations) on the tables
get_item_candidates_prompt(item_name, allocations, W, alts, cfg, fault) ==
    PromptResult(item_name, allocations,
                 generate_checking_candidates(item_name, W, alts, cfg), fault)

(***************************************************************************)
(* Decision Client: process_item and its retry loop.                       *)
(***************************************************************************)
MAX_RETRIES == 3
\* initial delay in seconds
RETRY_DELAY == 2

\* the same delay before every retry
RetryDelay_Constant(attempt) == RETRY_DELAY

\* "delay = self.RETRY_DELAY * (2 ** attempt)"
RetryDelay(attempt) == RETRY_DELAY * (2 ^ attempt)

\* exception classes of the completion call
TransientErrors == {"InternalServerError", "RateLimitError", "APIConnectionError"}
ErrorClasses == TransientErrors \cup {"AuthenticationError", "BadRequestError"}

\* every exception class is retried
Retries_AnyError(error_class, attempt) == attempt < MAX_RETRIES

\* "except (InternalServerError, RateLimitError, APIConnectionError)" with
\* "if attempt < self.MAX_RETRIES": the failed attempt is followed by a retry
Retries(error_class, attempt) ==
    error_class \in TransientErrors /\ attempt < MAX_RETRIES

\* only the last except clause
ErrorMessage_Generic(error_class) ==
    [prefix |-> "API error (provider): ", detail |-> "str(e)"]

\* the except clauses of process_item, in their order
ErrorMessage(error_class) ==
    CASE error_class = "RateLimitError" ->
            [prefix |-> "Rate limit exceeded: ", detail |-> "str(e)"]
      [] error_class = "AuthenticationError" ->
            [prefix |-> "Invalid API key for provider: ", detail |-> "str(e)"]
      [] error_class = "APIConnectionError" ->
            [prefix |-> "Connection error to provider: ", detail |-> "str(e)"]
      [] OTHER ->
            [prefix |-> "API error (provider): ", detail |-> "str(e)"]

\* "if decision.success and decision.suggestion_1" of process_item
RecordsAllocation(single_item_mode, d) == d.success /\ d.suggestion_1 # <<>>

\* names a reply can put first, and the count of record_allocation calls per
\* name since the table was last emptied
TrackedNames == {<<r>> : r \in Raiders}
NothingRecorded == [n \in TrackedNames |-> 0]
Counted(counts, player_name) ==
    IF player_name \in DOMAIN counts
    THEN [counts EXCEPT ![player_name] = @ + 1]
    ELSE counts

NoDecision == FailedDecision(None, None, NoError)
NoCall ==
    [ item_name |-> None, single_item_mode |-> FALSE, success |-> FALSE,
      session_lines |-> EmptyDict, item_slot |-> None, attempt |-> 0,
      attempts |-> 0, last_error |-> None, last_delay |-> 0, slept |-> 0 ]

\* process_item behind the call of get_item_candidates_prompt: a failed
\* prompt result is returned as a failed decision
AfterPrompt(item_name, single_item_mode, prompt_result) ==
    /\ cand' = prompt_result.result
    /\ call' = [ item_name |-> item_name,
                 single_item_mode |-> single_item_mode,
                 success |-> prompt_result.success,
                 session_lines |-> prompt_result.session_lines,
                 item_slot |-> prompt_result.item_slot,
                 attempt |-> 0, attempts |-> 0, last_error |-> None,
                 last_delay |-> 0, slept |-> 0 ]
    /\ IF prompt_result.success
       THEN pi' = "call" /\ decision' = NoDecision
       ELSE /\ pi' = "returned"
            /\ decision' = FailedDecision(item_name, prompt_result.item_slot,
                                          prompt_result.error)

\* entry of process_item on the table "allocations": the prompt is built
EnterProcessItem(item_name, single_item_mode, allocations, fault) ==
    AfterPrompt(item_name, single_item_mode,
                get_item_candidates_prompt(
                    item_name,
                    IF single_item_mode THEN EmptyDict ELSE allocations,
                    wishlists, profile_is_alt, config, fault))

\* one completion() call that returns a response with the given content
CompletionReturns(has_content, text) ==
    /\ pi = "call"
    /\ LET d == IF has_content
                THEN _parse_response(text, call.item_name, call.item_slot)
                ELSE FailedDecision(call.item_name, call.item_slot,
                                    ErrorMessage("TypeError"))
           rec == RecordsAllocation(call.single_item_mode, d)
       IN  /\ decision' = d
           /\ session_allocations' =
                 IF rec THEN record_allocation(session_allocations, d.suggestion_1)
                 ELSE session_allocations
           /\ recorded' = IF rec THEN Counted(recorded, d.suggestion_1) ELSE recorded
    /\ call' = [call EXCEPT !.attempts = @ + 1, !.last_error = None]
    /\ pi' = "returned"
    /\ UNCHANGED <<pure, wishlists, profile_is_alt, config, cand, driver, phase, items,
                   decisions, broke, cancel_requested, runs>>

\* one completion() call that raises
CompletionRaises(error_class) ==
    /\ pi = "call"
    /\ IF Retries(error_class, call.attempt)
       THEN /\ pi' = "sleep"
            /\ decision' = decision
       ELSE /\ pi' = "returned"
            /\ decision' = FailedDecision(call.item_name, call.item_slot,
                                          ErrorMessage(error_class))
    /\ call' = [call EXCEPT !.attempts = @ + 1, !.last_error = error_class]
    /\ UNCHANGED <<pure, wishlists, profile_is_alt, config, cand, session_allocations,
                   recorded, driver, phase, items, decisions, broke,
                   cancel_requested, runs>>

\* time.sleep(delay) of the retry loop, then the next iteration
RetrySleep ==
    /\ pi = "sleep"
    /\ pi' = "call"
    /\ call' = [call EXCEPT !.attempt = @ + 1,
                            !.last_delay = RetryDelay(call.attempt),
                            !.slept = @ + RetryDelay(call.attempt)]
    /\ UNCHANGED <<pure, wishlists, profile_is_alt, config, cand, session_allocations,
                   recorded, driver, phase, items, decisions, broke,
                   cancel_requested, runs, decision>>

(***************************************************************************)
(* Direct call of the tracker by the owner of a processor.                 *)
(***************************************************************************)
\* LootCouncilProcessor.reset_session_allocations
ResetSessionAllocations ==
    /\ driver = "none"
    /\ session_allocations' = EmptyDict
    /\ recorded' = NothingRecorded
    /\ UNCHANGED <<pure, wishlists, profile_is_alt, config, cand, driver, phase, items,
                   decisions, broke, cancel_requested, runs, pi, call, decision>>

(***************************************************************************)
(* Batch drivers: LootCouncilProcessor.process_zone and the GUI's          *)
(* run_lc_processing; single lookups.                                      *)
(***************************************************************************)
\* items of a zone: one with candidates, one that nobody wishes for
BatchItemNames == {"HELM OF THE FALLEN DEFENDER", "Band of Ruin"}
\* a single lookup takes any text
SingleItemNames == BatchItemNames \cup {"No Such Item"}
Batches == SeqsUpTo(BatchItemNames, MaxItems)

\* the table a batch run starts on: run_lc_processing constructs a new
\* processor (session_allocations = {}), process_zone keeps self's table
TableAtBatchStart(kind, allocations) ==
    IF kind = "gui" THEN EmptyDict ELSE allocations

\* process_zone(zone_name) / run_lc_processing up to the head of the loop
StartBatch(kind, batch) ==
    /\ driver = "none"
    /\ runs < MaxRuns
    /\ runs' = runs + 1
    /\ driver' = kind
    /\ items' = batch
    /\ decisions' = <<>>
    /\ broke' = FALSE
    /\ phase' = IF batch = <<>> THEN "done" ELSE "check"
    /\ session_allocations' = TableAtBatchStart(kind, session_allocations)
    /\ recorded' = IF kind = "gui" THEN NothingRecorded ELSE recorded
    /\ cancel_requested' = IF kind = "gui" THEN FALSE ELSE cancel_requested
    /\ UNCHANGED <<pure, wishlists, profile_is_alt, config, cand, pi, call, decision>>

\* the driver stops at the first failed decision
ContinuesAfter_OnlySuccess(d) == d.success

\* does the driver go on after this decision (neither driver looks at it)
ContinuesAfter(d) == TRUE

\* the flag is never looked at
CancelObserved_Never(kind, cancel_check, flag) == FALSE

\* "if cancel_check and cancel_check()" of process_zone, "if
\* is_cancel_requested()" of run_lc_processing
CancelObserved(kind, cancel_check, flag) ==
    (kind = "zone" /\ cancel_check) \/ (kind = "gui" /\ flag)

\* head of the loop: the loop ends, breaks on cancellation, or starts an item
LoopHead(cancel_check, fault) ==
    /\ phase = "check"
    /\ IF Len(decisions) = Len(items)
          \/ (Len(decisions) > 0 /\ ~ContinuesAfter(decisions[Len(decisions)]))
       THEN /\ phase' = "done"
            /\ UNCHANGED <<broke, cand, pi, call, decision>>
       ELSE IF CancelObserved(driver, cancel_check, cancel_requested)
       THEN /\ phase' = "done"
            /\ broke' = TRUE
            /\ UNCHANGED <<cand, pi, call, decision>>
       ELSE /\ phase' = "item"
            /\ EnterProcessItem(items[Len(decisions) + 1], FALSE,
                                session_allocations, fault)
            /\ UNCHANGED broke
    /\ UNCHANGED <<pure, wishlists, profile_is_alt, config, session_allocations, recorded,
                   driver, items, decisions, cancel_requested, runs>>

\* decisions.append(decision), then the rate-limiting delay unless it was the
\* last item (the GUI also skips the delay once cancellation is requested)
Collect ==
    /\ phase = "item"
    /\ pi = "returned"
    /\ decisions' = Append(decisions, decision)
    /\ pi' = "idle"
    /\ phase' = IF /\ Len(decisions) + 1 < Len(items)
                   /\ (driver = "zone" \/ ~cancel_requested)
                THEN "delay" ELSE "check"
    /\ cand' = NoResult /\ call' = NoCall /\ decision' = NoDecision
    /\ UNCHANGED <<pure, wishlists, profile_is_alt, config, session_allocations,
                   recorded, driver, items, broke, cancel_requested, runs>>

\* time.sleep(self.delay_seconds) / asyncio.sleep(delay)
Delay ==
    /\ phase = "delay"
    /\ phase' = "check"
    /\ UNCHANGED <<pure, wishlists, profile_is_alt, config, cand, session_allocations,
                   recorded, driver, items, decisions, broke, cancel_requested,
                   runs, pi, call, decision>>

\* return decisions / the CSV is saved and the finally block runs
FinishBatch ==
    /\ phase = "done"
    /\ phase' = "idle"
    /\ driver' = "none"
    /\ cancel_requested' = IF driver = "gui" THEN FALSE ELSE cancel_requested
    /\ items' = <<>> /\ decisions' = <<>> /\ broke' = FALSE
    /\ UNCHANGED <<pure, wishlists, profile_is_alt, config, cand, session_allocations,
                   recorded, runs, pi, call, decision>>

\* run_lc.request_cancel, from the cancel button of a running batch
RequestCancel ==
    /\ driver = "gui"
    /\ ~cancel_requested
    /\ cancel_requested' = TRUE
    /\ UNCHANGED <<pure, wishlists, profile_is_alt, config, cand, session_allocations,
                   recorded, driver, phase, items, decisions, broke, runs, pi,
                   call, decision>>

\* process_item(item_name, single_item_mode=True) on the processor at hand
\* (fresh = FALSE) or on a new one as in run_single_item_processing
StartSingleItem(item_name, fresh, fault) ==
    /\ driver = "none"
    /\ runs < MaxRuns
    /\ runs' = runs + 1
    /\ driver' = "single"
    /\ session_allocations' = IF fresh THEN EmptyDict ELSE session_allocations
    /\ recorded' = IF fresh THEN NothingRecorded ELSE recorded
    /\ EnterProcessItem(item_name, TRUE, session_allocations', fault)
    /\ UNCHANGED <<pure, wishlists, profile_is_alt, config, phase, items, decisions,
                   broke, cancel_requested>>

FinishSingleItem ==
    /\ driver = "single"
    /\ pi = "returned"
    /\ driver' = "none"
    /\ pi' = "idle"
    /\ cand' = NoResult /\ call' = NoCall /\ decision' = NoDecision
    /\ UNCHANGED <<pure, wishlists, profile_is_alt, config, session_allocations,
                   recorded, phase, items, decisions, broke, cancel_requested,
                   runs>>

(***************************************************************************)
(* Specification of the processor: fixed tables, any sequence of batch     *)
(* runs, single lookups and direct tracker calls.                          *)
(***************************************************************************)
ProcIdle ==
    /\ session_allocations = EmptyDict
    /\ recorded = NothingRecorded
    /\ driver = "none"
    /\ phase = "idle"
    /\ items = <<>>
    /\ decisions = <<>>
    /\ broke = FALSE
    /\ cancel_requested = FALSE
    /\ runs = 0
    /\ pi = "idle"
    /\ call = NoCall
    /\ decision = NoDecision

\* Alice wants the token, Bob a compatible item for offspec, Cara received hers
BatchWishlists ==
    [r \in Raiders |->
        CASE r = "Alice" -> << WishEntry(1, 1, FALSE, FALSE, NoDate) >>
          [] r = "Bob"   -> << WishEntry(2, 2, TRUE, FALSE, NoDate) >>
          [] OTHER       -> << WishEntry(2, 1, FALSE, TRUE, reference_date) >>]

\* no pure function is under study
NoPure == [op |-> "none"]

\* the tables and the configuration of the processor specification
FixedTables ==
    /\ wishlists = BatchWishlists
    /\ profile_is_alt = [r \in Raiders |-> FALSE]
    /\ config = [show_alt_status |-> FALSE, client_version |-> "tbc"]
    /\ cand = NoResult

Init ==
    /\ FixedTables
    /\ ProcIdle
    /\ pure = NoPure

Next ==
    \/ ResetSessionAllocations
    \/ \E k \in {"zone", "gui"}, b \in Batches : StartBatch(k, b)
    \/ \E c \in BOOLEAN, f \in BOOLEAN : LoopHead(c, f)
    \/ \E t \in ReplyTexts : CompletionReturns(TRUE, t)
    \/ CompletionReturns(FALSE, <<>>)
    \/ \E e \in ErrorClasses : CompletionRaises(e)
    \/ RetrySleep
    \/ Collect
    \/ Delay
    \/ FinishBatch
    \/ RequestCancel
    \/ \E n \in SingleItemNames, fresh \in BOOLEAN, f \in BOOLEAN :
          StartSingleItem(n, fresh, f)
    \/ FinishSingleItem

Spec == Init /\ [][Next]_vars

(***************************************************************************)
(* Specification of the candidate engine: the tables and the configuration *)
(* are any of the bounded data model, the engine is called once.           *)
(***************************************************************************)
Configs == [show_alt_status : BOOLEAN, client_version : ClientVersions]

CandInit ==
    /\ \E a \in WishlistsOf(RaiderOrder[1]), b \in WishlistsOf(RaiderOrder[2]),
          c \in WishlistsOf(RaiderOrder[3]) :
          wishlists = [r \in Raiders |-> IF r = RaiderOrder[1] THEN a
                                         ELSE IF r = RaiderOrder[2] THEN b ELSE c]
    /\ profile_is_alt \in [Raiders -> BOOLEAN]
    /\ config \in Configs
    /\ cand = NoResult
    /\ ProcIdle
    /\ pure = NoPure

GenerateCheckingCandidates(item_name) ==
    /\ ~cand.called
    /\ cand' = generate_checking_candidates(item_name, wishlists, profile_is_alt, config)
    /\ UNCHANGED <<pure, wishlists, profile_is_alt, config>>
    /\ UNCHANGED procVars

CandNext == \E n \in ItemNames : GenerateCheckingCandidates(n)

SpecCand == CandInit /\ [][CandNext]_vars

(***************************************************************************)
(* Specification of the Response Parser: _parse_response applied once to   *)
(* a text in the fixed output format or to any short text.                 *)
(***************************************************************************)
\* longest name put into the fixed format, in tokens
MaxNameLen == 3
\* longest rationale put into the fixed format, in tokens
MaxRationaleLen == 3
\* longest free text, in tokens
MaxTextLen == 4

NonEmptySeqsUpTo(S, n) == UNION { [1..k -> S] : k \in 1..n }

\* tokens of names: a word, blanks, punctuation and the words of the labels
NameTokens == {"Alice", " ", ":", "Rationale", "Suggestion", "2"}
\* tokens of rationales
RationaleTokens == {"Rule", " ", ":", "\n", "Rationale"}
\* tokens of free texts
TextTokens == {"Suggestion", "1", "2", ":", " ", "\n", "Rationale", "Bob"}

\* names of the format: non-empty, no newline
FormatNames == NonEmptySeqsUpTo(NameTokens, MaxNameLen)
FormatRationales == SeqsUpTo(RationaleTokens, MaxRationaleLen)

\* one name varies at a time, next to "Bob" and the literal "None"
FormatTriples ==
    {<<n, <<"Bob">>, <<"None">> >> : n \in FormatNames}
    \cup {<< <<"Bob">>, n, <<"None">> >> : n \in FormatNames}
    \cup {<< <<"Bob">>, <<"None">>, n>> : n \in FormatNames}

\* rationales next to which the names vary: one line, two lines
BasicRationales == {<<"Rule">>, <<"Rule", "\n", "Rule">>}

\* the names vary next to a basic rationale, the rationale varies next to
\* plain names
FormatInputs ==
    (FormatTriples \X BasicRationales)
    \cup ({<< <<"Alice">>, <<"Bob">>, <<"None">> >>} \X FormatRationales)

ParseInputs ==
    {[format |-> TRUE, names |-> in[1], rationale |-> in[2],
      text |-> FormatReply(in[1][1], in[1][2], in[1][3], in[2])] :
        in \in FormatInputs}
    \cup {[format |-> FALSE, names |-> <<>>, rationale |-> <<>>, text |-> t] :
            t \in SeqsUpTo(TextTokens, MaxTextLen)}

ParseInit ==
    /\ FixedTables
    /\ ProcIdle
    /\ \E in \in ParseInputs :
          pure = [op |-> "parse", done |-> FALSE, input |-> in, output |-> NoDecision]

\* self._parse_response(response_text, item_name, item_slot)
ParseResponse ==
    /\ pure.op = "parse" /\ ~pure.done
    /\ pure' = [pure EXCEPT !.done = TRUE,
                            !.output = _parse_response(pure.input.text, "item", "slot")]
    /\ UNCHANGED <<wishlists, profile_is_alt, config, cand>>
    /\ UNCHANGED procVars

ParseNext == ParseResponse

SpecParse == ParseInit /\ [][ParseNext]_vars

(***************************************************************************)
(* Simple policy mode: generate_simple_policy_rules.                       *)
(***************************************************************************)
\* longest configured metric_order
MaxOrderLen == 3

\* the keys of METRIC_RULE_TEMPLATES in their order
TemplateKeys ==
    <<"attendance", "recent_loot", "wishlist_position", "parses",
      "ilvl_comparison", "tier_token_counts", "last_item_received">>

METRIC_RULE_TEMPLATES ==
    [m \in SeqToSet(TemplateKeys) |->
        CASE m = "attendance" ->
               "Give preference to raiders with higher attendance percentage."
          [] m = "recent_loot" ->
               "Give preference to raiders who have received fewer items recently."
          [] m = "wishlist_position" ->
               "Give preference to raiders who ranked this item higher on their wishlist (lower position = more desired)."
          [] m = "parses" ->
               "Give preference to raiders with better parse performance."
          [] m = "ilvl_comparison" ->
               "Give preference to raiders with a larger ilvl difference."
          [] m = "tier_token_counts" ->
               "Prioritise raiders who are closer to completing 2 or 4 set tier bonus."
          [] OTHER ->
               "Give preference to raiders who received an item for this slot longest ago."]

\* "for m in all_metrics: if m not in seen: metric_order = metric_order + [m]"
RECURSIVE AppendMissing(_, _, _)
AppendMissing(metric_order, seen, k) ==
    IF k > Len(TemplateKeys) THEN metric_order
    ELSE AppendMissing(
             IF TemplateKeys[k] \in seen THEN metric_order
             ELSE Append(metric_order, TemplateKeys[k]),
             seen, k + 1)

\* the dict "enabled" built from the toggles of the configuration
EnabledMetrics(cfg) ==
    [m \in SeqToSet(TemplateKeys) |->
        CASE m = "attendance" -> cfg.show_attendance
          [] m = "recent_loot" -> cfg.show_recent_loot
          [] m = "wishlist_position" -> cfg.show_wishlist_position
          [] m = "parses" -> cfg.show_parses
          [] m = "ilvl_comparison" ->
               cfg.currently_equipped_enabled /\ cfg.show_ilvl_comparisons
          [] m = "tier_token_counts" ->
               cfg.currently_equipped_enabled /\ cfg.show_tier_token_counts
          [] OTHER -> cfg.show_last_item_received]

\* the loop over metric_order: a rule per entry that is enabled and has a
\* template; rule_num is one more than the number of rules so far
RECURSIVE RulesLoop(_, _, _, _)
RulesLoop(metric_order, enabled, k, rules) ==
    IF k > Len(metric_order) THEN rules
    ELSE RulesLoop(
             metric_order, enabled, k + 1,
             IF /\ metric_order[k] \in DOMAIN enabled
                /\ enabled[metric_order[k]]
                /\ metric_order[k] \in DOMAIN METRIC_RULE_TEMPLATES
             THEN Append(rules, [rule_num |-> Len(rules) + 1,
                                 metric   |-> metric_order[k],
                                 sentence |-> METRIC_RULE_TEMPLATES[metric_order[k]]])
             ELSE rules)

\* generate_simple_policy_rules: the lines "RULE <rule_num>: <sentence>"; no
\* line stands for the text "No additional rules configured."
generate_simple_policy_rules(cfg) ==
    RulesLoop(AppendMissing(cfg.metric_order, SeqToSet(cfg.metric_order), 1),
              EnabledMetrics(cfg), 1, <<>>)

\* ids found in a stored metric_order: templated metrics and one without a
\* template
OrderIds == {"wishlist_position", "attendance", "ilvl_comparison", "tank_priority"}

\* configurations of the rules: three toggles and the equipped gate vary
RuleConfigs ==
    [ metric_order : SeqsUpTo(OrderIds, MaxOrderLen),
      show_attendance : BOOLEAN,
      show_wishlist_position : BOOLEAN,
      show_ilvl_comparisons : BOOLEAN,
      currently_equipped_enabled : BOOLEAN,
      show_recent_loot : {FALSE},
      show_parses : {FALSE},
      show_tier_token_counts : {FALSE},
      show_last_item_received : {FALSE} ]

RulesInit ==
    /\ FixedTables
    /\ ProcIdle
    /\ \E cfg \in RuleConfigs :
          pure = [op |-> "rules", done |-> FALSE, input |-> cfg, output |-> <<>>]

GenerateSimplePolicyRules ==
    /\ pure.op = "rules" /\ ~pure.done
    /\ pure' = [pure EXCEPT !.done = TRUE,
                            !.output = generate_simple_policy_rules(pure.input)]
    /\ UNCHANGED <<wishlists, profile_is_alt, config, cand>>
    /\ UNCHANGED procVars

RulesNext == GenerateSimplePolicyRules

SpecRules == RulesInit /\ [][RulesNext]_vars

(***************************************************************************)
(* Attendance: calculate_attendance_percentage.                            *)
(***************************************************************************)
\* most rows of an attendance table
MaxRows == 2

\* a credit is a number of quarters: 0, 1/4, .. 1 are 0 .. CreditUnit
CreditUnit == 4
Credits == {0, 1, CreditUnit}

\* raid dates: before the window, on its first day, on the reference date
\* and after it (lookback of LookbackDays days)
LookbackDays == 6
RaidDates ==
    {reference_date - LookbackDays - 1, reference_date - LookbackDays,
     reference_date, reference_date + 1}

RaidNames == {"Gruul's Lair", "Magtheridon's Lair"}

\* str.lower() on the character names of this model
LowerName(s) ==
    CASE s \in {"Alice", "alice"} -> "alice"
      [] s \in {"Bob", "bob"}     -> "bob"
      [] OTHER                    -> s

AttendanceRows ==
    [ raid_date : RaidDates, raid_name : RaidNames,
      character_name : {"Alice", "Bob"}, credit : Credits ]

\* attendance tables: at most one row per raid and character
AttendanceTables ==
    { T \in { SeqToSet(rows) : rows \in SeqsUpTo(AttendanceRows, MaxRows) } :
           \A a, b \in T :
              (/\ a.raid_date = b.raid_date
               /\ a.raid_name = b.raid_name
               /\ a.character_name = b.character_name) => a = b }

RECURSIVE SumCredit(_)
SumCredit(rows) ==
    IF rows = {} THEN 0
    ELSE LET r == CHOOSE x \in rows : TRUE
         IN  r.credit + SumCredit(rows \ {r})

\* the float 0.0
ZeroPercent == [num |-> 0, den |-> 1]

\* the percentage as the exact fraction num / den (den > 0):
\* (total_credit / total_raids) * 100 with the credits in quarters
AttendancePercent(period_attendance, character_name, total_raids) ==
    [ num |-> 100 * SumCredit({r \in period_attendance :
                     LowerName(r.character_name) = LowerName(character_name)}),
      den |-> CreditUnit * total_raids ]

calculate_attendance_percentage(attendance_df, character_name, ref_date, lookback_days) ==
    LET start_date == ref_date - lookback_days
        period_attendance ==
            {r \in attendance_df :
                r.raid_date >= start_date /\ r.raid_date <= ref_date}
        total_raids == Cardinality({r.raid_date : r \in period_attendance})
    IN  IF period_attendance = {} THEN ZeroPercent
        ELSE IF total_raids = 0 THEN ZeroPercent
        ELSE AttendancePercent(period_attendance, character_name, total_raids)

AttendanceInputs ==
    [ attendance_df : AttendanceTables,
      character_name : {"Alice", "alice"},
      reference_date : {reference_date},
      lookback_days : {0, LookbackDays} ]

AttendanceInit ==
    /\ FixedTables
    /\ ProcIdle
    /\ \E in \in AttendanceInputs :
          pure = [op |-> "attendance", done |-> FALSE, input |-> in,
                  output |-> ZeroPercent]

CalculateAttendancePercentage ==
    /\ pure.op = "attendance" /\ ~pure.done
    /\ pure' = [pure EXCEPT
          !.done = TRUE,
          !.output = calculate_attendance_percentage(
                         pure.input.attendance_df, pure.input.character_name,
                         pure.input.reference_date, pure.input.lookback_days)]
    /\ UNCHANGED <<wishlists, profile_is_alt, config, cand>>
    /\ UNCHANGED procVars

AttendanceNext == CalculateAttendancePercentage

SpecAttendance == AttendanceInit /\ [][AttendanceNext]_vars

(***************************************************************************)
(* generate_checking_candidates called twice with the same item name.      *)
(***************************************************************************)
\* the call empties the wishlists it has scanned
WishlistsAfterCall_Consumed(W) == [r \in DOMAIN W |-> <<>>]

\* the wishlist table after a call: the loop over the rows reads the
\* entries, rebinds its local received_at and writes nothing back
WishlistsAfterCall(W) == W

\* the profile table after a call: rows are selected by name and read
ProfilesAfterCall(alts) == alts

TwiceInit ==
    /\ wishlists \in [Raiders -> SeqsUpTo(BasicEntries, 1)]
    /\ profile_is_alt \in [Raiders -> BOOLEAN]
    /\ config \in Configs
    /\ cand = NoResult
    /\ ProcIdle
    /\ \E n \in ItemNames :
          pure = [op |-> "twice", done |-> 0,
                  input |-> [item_name |-> n, wishlists |-> wishlists,
                             profile_is_alt |-> profile_is_alt, config |-> config],
                  output |-> <<>>]

\* one call with the item name of the run, on the tables as they are now
CallGenerateCheckingCandidates ==
    /\ pure.op = "twice" /\ pure.done < 2
    /\ cand' = generate_checking_candidates(pure.input.item_name, wishlists,
                                            profile_is_alt, config)
    /\ pure' = [pure EXCEPT !.done = @ + 1, !.output = Append(@, cand')]
    /\ wishlists' = WishlistsAfterCall(wishlists)
    /\ profile_is_alt' = ProfilesAfterCall(profile_is_alt)
    /\ UNCHANGED config
    /\ UNCHANGED procVars

TwiceNext == CallGenerateCheckingCandidates

SpecTwice == TwiceInit /\ [][TwiceNext]_vars

(***************************************************************************)
(* Prompt Composer: the user prompt of get_item_candidates_prompt and the  *)
(* system prompt that process_item builds for it.  A prompt is a sequence  *)
(* of lines; a line is its label and the candidate block it stands in      *)
(* (block 0 is the item header).  Lines of metrics that have no clause in  *)
(* the system prompt are left out.                                         *)
(***************************************************************************)
\* most candidates of an item
MaxCandidates == 2

Line(block, label) == [block |-> block, label |-> label]

\* the lines of one candidate block
CandidateBlock(idx, raider_name, cfg, item_ilvl, allocations, raider_notes) ==
    LET show_ilvl_upgrade ==
            cfg.currently_equipped_enabled /\ cfg.show_ilvl_comparisons
        note == IF cfg.show_raider_notes /\ raider_name \in DOMAIN raider_notes
                THEN raider_notes[raider_name] ELSE ""
    IN  <<Line(idx, "Class/Spec"), Line(idx, "Role"), Line(idx, "Item Priority")>>
        \o (IF cfg.show_wishlist_position
            THEN <<Line(idx, "Wishlist Position")>> ELSE <<>>)
        \o (IF raider_name \in DOMAIN allocations
            THEN <<Line(idx, "Items assigned this session")>> ELSE <<>>)
        \o (IF show_ilvl_upgrade /\ item_ilvl # 0
            THEN <<Line(idx, "Upgrade size")>> ELSE <<>>)
        \o (IF note # "" THEN <<Line(idx, "Custom Note")>> ELSE <<>>)

RECURSIVE CandidateBlocks(_, _, _, _, _, _)
CandidateBlocks(idx, candidates, cfg, item_ilvl, allocations, raider_notes) ==
    IF idx > Len(candidates) THEN <<>>
    ELSE CandidateBlock(idx, candidates[idx], cfg, item_ilvl, allocations, raider_notes)
         \o CandidateBlocks(idx + 1, candidates, cfg, item_ilvl, allocations,
                            raider_notes)

\* the successful return of get_item_candidates_prompt
BuildPrompt(candidates, cfg, item_ilvl, item_note, allocations, raider_notes) ==
    [ success |-> TRUE,
      prompt |->
          <<Line(0, "Item")>>
          \o (IF item_note # None THEN <<Line(0, "Guild Priority Note")>> ELSE <<>>)
          \o CandidateBlocks(1, candidates, cfg, item_ilvl, allocations, raider_notes),
      has_custom_notes |->
          \E k \in 1..Len(candidates) :
              /\ cfg.show_raider_notes
              /\ candidates[k] \in DOMAIN raider_notes
              /\ raider_notes[candidates[k]] # "",
      has_wishlist_position |-> cfg.show_wishlist_position,
      has_ilvl_comparison |->
          cfg.currently_equipped_enabled /\ cfg.show_ilvl_comparisons,
      has_guild_priority_note |-> item_note # None ]

\* get_system_prompt: the parts of the system prompt in their order
get_system_prompt(include_session_tracking, has_custom_notes, has_wishlist_position, has_ilvl_comparison, has_guild_priority_note) ==
    <<"_SYSTEM_PROMPT_BASE">>
    \o (IF has_wishlist_position THEN <<"_WISHLIST_POSITION_CONTEXT">> ELSE <<>>)
    \o (IF has_ilvl_comparison THEN <<"_ILVL_COMPARISON_CONTEXT">> ELSE <<>>)
    \o (IF include_session_tracking THEN <<"_SESSION_TRACKING_CONTEXT">> ELSE <<>>)
    \o (IF has_custom_notes THEN <<"_CUSTOM_NOTE_CONTEXT">> ELSE <<>>)
    \o (IF has_guild_priority_note THEN <<"_GUILD_PRIORITY_NOTE_CONTEXT">> ELSE <<>>)
    \o <<"_SYSTEM_PROMPT_FOOTER">>

\* every clause, whatever the prompt result
SystemPromptFor_AllClauses(single_item_mode, prompt_result) ==
    <<"_SYSTEM_PROMPT_BASE", "_WISHLIST_POSITION_CONTEXT", "_ILVL_COMPARISON_CONTEXT",
      "_SESSION_TRACKING_CONTEXT", "_CUSTOM_NOTE_CONTEXT",
      "_GUILD_PRIORITY_NOTE_CONTEXT", "_SYSTEM_PROMPT_FOOTER">>

\* process_item: "system_prompt = get_system_prompt(...)" on a prompt result
SystemPromptFor(single_item_mode, prompt_result) ==
    get_system_prompt(~single_item_mode,
                      prompt_result.has_custom_notes,
                      prompt_result.has_wishlist_position,
                      prompt_result.has_ilvl_comparison,
                      prompt_result.has_guild_priority_note)

\* process_item up to the completion call: the user prompt is built on the
\* session table (on an empty one in single-item mode), then the system prompt
ComposePrompts(in) ==
    LET prompt_result ==
            BuildPrompt(in.candidates, in.cfg, in.item_ilvl, in.item_note,
                        IF in.single_item_mode THEN << >> ELSE in.session_allocations,
                        in.raider_notes)
    IN  [ user_prompt   |-> prompt_result.prompt,
          system_prompt |-> SystemPromptFor(in.single_item_mode, prompt_result) ]

\* the raiders that can be candidates, in the order of the wishlist table
PromptRaiders == {RaiderOrder[k] : k \in 1..Min({MaxCandidates, Len(RaiderOrder)})}

\* dictionaries with keys among the raiders and values in V
DictsOver(K, V) == UNION { [S -> V] : S \in SUBSET K }

PromptInputs ==
    [ candidates : { SubSeq(RaiderOrder, 1, n) :
                        n \in 1..Min({MaxCandidates, Len(RaiderOrder)}) },
      cfg : [ show_wishlist_position : BOOLEAN,
              currently_equipped_enabled : BOOLEAN,
              show_ilvl_comparisons : BOOLEAN,
              show_raider_notes : BOOLEAN ],
      item_ilvl : {0, 120},
      item_note : {None, "Tanks first"},
      single_item_mode : BOOLEAN,
      session_allocations : DictsOver(PromptRaiders, {1}),
      raider_notes : DictsOver(PromptRaiders, {"", "Reliable"}) ]

PromptInit ==
    /\ FixedTables
    /\ ProcIdle
    /\ \E in \in PromptInputs :
          pure = [op |-> "prompt", done |-> FALSE, input |-> in,
                  output |-> [user_prompt |-> <<>>, system_prompt |-> <<>>]]

ComposePromptsForItem ==
    /\ pure.op = "prompt" /\ ~pure.done
    /\ pure' = [pure EXCEPT !.done = TRUE, !.output = ComposePrompts(pure.input)]
    /\ UNCHANGED <<wishlists, profile_is_alt, config, cand>>
    /\ UNCHANGED procVars

PromptNext == ComposePromptsForItem

SpecPrompt == PromptInit /\ [][PromptNext]_vars

(***************************************************************************)
(* Data sources read while one item is processed: the reads of             *)
(* generate_checking_candidates and of get_item_candidates_prompt.         *)
(***************************************************************************)
\* the reads of generate_checking_candidates: none when the item name is not
\* in the catalog (the ValueError comes first), all five tables otherwise
CandidateReads(found) ==
    IF found
    THEN {"item_notes", "wishlists", "profiles", "received", "attendance"}
    ELSE {}

\* the reads of get_item_candidates_prompt behind the candidate list
PromptReads(in) ==
    LET show_ilvl_upgrade ==
            in.currently_equipped_enabled /\ in.show_ilvl_comparisons
        show_tier_token_counts ==
            /\ in.currently_equipped_enabled
            /\ in.show_tier_token_counts
            /\ in.tier_version
        should_fetch_parse == in.parse_filter_everyone \/ in.is_dps_role
    IN  (IF show_ilvl_upgrade \/ show_tier_token_counts THEN {"gear"} ELSE {})
        \cup (IF in.show_raider_notes THEN {"notes"} ELSE {})
        \cup (IF in.show_last_item_received THEN {"received"} ELSE {})
        \cup (IF in.show_parses /\ in.parse_settings /\ should_fetch_parse
              THEN {"parses"} ELSE {})

\* the sources read by get_item_candidates_prompt for one item
SourcesRead(in) ==
    CandidateReads(in.found)
    \cup (IF in.found /\ in.has_candidates THEN PromptReads(in) ELSE {})

ReadInputs ==
    [ found : BOOLEAN, has_candidates : BOOLEAN, tier_version : BOOLEAN,
      show_attendance : BOOLEAN, show_recent_loot : BOOLEAN,
      show_last_item_received : BOOLEAN,
      currently_equipped_enabled : BOOLEAN, show_ilvl_comparisons : BOOLEAN,
      show_tier_token_counts : BOOLEAN, show_raider_notes : BOOLEAN,
      show_parses : BOOLEAN, parse_settings : BOOLEAN,
      parse_filter_everyone : BOOLEAN, is_dps_role : BOOLEAN ]

ReadsInit ==
    /\ FixedTables
    /\ ProcIdle
    /\ \E in \in ReadInputs :
          pure = [op |-> "reads", done |-> FALSE, input |-> in, output |-> {}]

BuildPromptReads ==
    /\ pure.op = "reads" /\ ~pure.done
    /\ pure' = [pure EXCEPT !.done = TRUE, !.output = SourcesRead(pure.input)]
    /\ UNCHANGED <<wishlists, profile_is_alt, config, cand>>
    /\ UNCHANGED procVars

ReadsNext == BuildPromptReads

SpecReads == ReadsInit /\ [][ReadsNext]_vars

(***************************************************************************)
(* Parse cache: the module-level dict _parse_cache of parse_cache.py and   *)
(* get_or_fetch_parse, called from process_item in the worker threads of   *)
(* the batch run and of the single-item lookup (run.io_bound), which can   *)
(* be in flight together.  The service call is the one point at which a    *)
(* caller can be overtaken.                                                *)
(***************************************************************************)
ParseZoneIds == {"zone A", "zone B"}
ParseRaiders == {"Alice", "Bob"}
ParsePairs == ParseZoneIds \X ParseRaiders
\* the worker threads that run process_item
ParseCallers == {"batch", "single"}

\* no entry under the key; also the None that get_cached_parse returns then
NotCached == [cached |-> FALSE, best_avg |-> None, median_avg |-> None]
\* dataclass ParseData, as the value under a key of the dict
ParseData(best, median) == [cached |-> TRUE, best_avg |-> best, median_avg |-> median]
\* what get_raider_parses can answer: averages, or no rankings
FetchedParses == {ParseData("95.0", "80.0"), ParseData(None, None)}

\* parse_cache.clear_cache
clear_cache(parse_cache) == [p \in ParsePairs |-> NotCached]

\* parse_cache.is_raider_cached
is_raider_cached(parse_cache, zone_id, raider_name) ==
    parse_cache[<<zone_id, raider_name>>] # NotCached

\* parse_cache.get_cached_parse
get_cached_parse(parse_cache, zone_id, raider_name) ==
    parse_cache[<<zone_id, raider_name>>]

\* parse_cache.cache_parse
cache_parse(parse_cache, zone_id, raider_name, best, median) ==
    [parse_cache EXCEPT ![<<zone_id, raider_name>>] = ParseData(best, median)]

\* a caller that is not inside get_or_fetch_parse and has not called yet
IdleCaller ==
    [pc |-> "idle", zone_id |-> None, raider_name |-> None,
     result |-> NotCached, fetched |-> FALSE]

ParseCacheInit ==
    /\ FixedTables
    /\ ProcIdle
    /\ pure = [op |-> "cache",
               parse_cache |-> [p \in ParsePairs |-> NotCached],
               callers |-> [t \in ParseCallers |-> IdleCaller],
               fetches |-> [p \in ParsePairs |-> 0],
               returned |-> {}]

\* get_or_fetch_parse up to its return or up to the service call;
\* fetches counts the service calls per pair since the last clear_cache,
\* returned holds the pairs for which a call has returned since then
GetOrFetchParse(t, zone_id, raider_name, has_server_info) ==
    /\ pure.op = "cache"
    /\ pure.callers[t].pc = "idle"
    /\ LET here == [zone_id |-> zone_id, raider_name |-> raider_name]
           pair == <<zone_id, raider_name>>
       IN  IF is_raider_cached(pure.parse_cache, zone_id, raider_name)
           THEN pure' = [pure EXCEPT
                    !.callers[t] = [pc |-> "idle", zone_id |-> zone_id,
                                    raider_name |-> raider_name,
                                    result |-> get_cached_parse(pure.parse_cache,
                                                                zone_id, raider_name),
                                    fetched |-> FALSE],
                    !.returned = @ \cup {pair}]
           ELSE IF ~has_server_info
           THEN pure' = [pure EXCEPT
                    !.parse_cache = cache_parse(@, zone_id, raider_name, None, None),
                    !.callers[t] = [pc |-> "idle", zone_id |-> zone_id,
                                    raider_name |-> raider_name,
                                    result |-> ParseData(None, None),
                                    fetched |-> FALSE],
                    !.returned = @ \cup {pair}]
           ELSE pure' = [pure EXCEPT
                    !.callers[t] = [pc |-> "fetch", zone_id |-> zone_id,
                                    raider_name |-> raider_name,
                                    result |-> NotCached, fetched |-> TRUE],
                    !.fetches[pair] = @ + 1]
    /\ UNCHANGED <<wishlists, profile_is_alt, config, cand>>
    /\ UNCHANGED procVars

\* the rest of get_or_fetch_parse once the answer is cached
ReturnCached(t, parse_cache) ==
    LET c == pure.callers[t]
    IN  pure' = [pure EXCEPT
            !.parse_cache = parse_cache,
            !.callers[t] = [c EXCEPT !.pc = "idle",
                              !.result = get_cached_parse(parse_cache, c.zone_id,
                                                          c.raider_name)],
            !.returned = @ \cup {<<c.zone_id, c.raider_name>>}]

\* get_raider_parses answers: the averages are cached, None values included
FetchReturns(t, parses) ==
    /\ pure.op = "cache"
    /\ pure.callers[t].pc = "fetch"
    /\ ReturnCached(t, cache_parse(pure.parse_cache, pure.callers[t].zone_id,
                                   pure.callers[t].raider_name,
                                   parses.best_avg, parses.median_avg))
    /\ UNCHANGED <<wishlists, profile_is_alt, config, cand>>
    /\ UNCHANGED procVars

\* "except Exception": the client or the lookup raised
FetchRaises(t) ==
    /\ pure.op = "cache"
    /\ pure.callers[t].pc = "fetch"
    /\ ReturnCached(t, cache_parse(pure.parse_cache, pure.callers[t].zone_id,
                                   pure.callers[t].raider_name, None, None))
    /\ UNCHANGED <<wishlists, profile_is_alt, config, cand>>
    /\ UNCHANGED procVars

\* clear_cache(); the service calls in flight go on
ClearCache ==
    /\ pure.op = "cache"
    /\ pure' = [pure EXCEPT
            !.parse_cache = clear_cache(@),
            !.fetches = [p \in ParsePairs |-> 0],
            !.returned = {}]
    /\ UNCHANGED <<wishlists, profile_is_alt, config, cand>>
    /\ UNCHANGED procVars

ParseCacheNext ==
    \/ \E t \in ParseCallers, z \in ParseZoneIds, r \in ParseRaiders, i \in BOOLEAN :
          GetOrFetchParse(t, z, r, i)
    \/ \E t \in ParseCallers, p \in FetchedParses : FetchReturns(t, p)
    \/ \E t \in ParseCallers : FetchRaises(t)
    \/ ClearCache

SpecParseCache == ParseCacheInit /\ [][ParseCacheNext]_vars

(***************************************************************************)
(* Shared item catalog: the module-level _shared_cache of nexus_manager.py *)
(* and the NexusItemManager methods that fill and read it.  Managers are   *)
(* created inside process_item's worker threads (batch run, single-item    *)
(* lookup), which can be in flight together; a thread can be overtaken     *)
(* while it reads the file or the network and between two iterations of    *)
(* the loop that fills items_by_id.                                        *)
(***************************************************************************)
\* the itemId values of the list that the file cache and GitHub hold
NexusItems == <<1, 2>>
NexusItemIds == {NexusItems[k] : k \in 1..Len(NexusItems)}
\* the threads that use a NexusItemManager
NexusThreads == {"batch", "single"}

\* a thread outside every manager method
NexusIdle == [pc |-> "idle", next |-> 0, looked |-> 0, found |-> FALSE]

NexusInit ==
    /\ FixedTables
    /\ ProcIdle
    /\ \E file \in BOOLEAN :
          pure = [op |-> "nexus",
                  loaded |-> FALSE,
                  items_by_id |-> {},
                  file_cache |-> file,
                  threads |-> [t \in NexusThreads |-> NexusIdle],
                  loads |-> 0]

\* get_item(item_id): _ensure_loaded, then items_by_id.get; when the cache is
\* not marked loaded the thread enters load_data and goes to read a source
GetItem(t, item_id) ==
    /\ pure.op = "nexus"
    /\ pure.threads[t].pc = "idle"
    /\ IF pure.loaded
       THEN pure' = [pure EXCEPT
                !.threads[t] = [pc |-> "idle", next |-> 0, looked |-> item_id,
                                found |-> item_id \in pure.items_by_id]]
       ELSE pure' = [pure EXCEPT
                !.threads[t] = [pc |-> "read", next |-> 0, looked |-> item_id,
                                found |-> FALSE]]
    /\ UNCHANGED <<wishlists, profile_is_alt, config, cand>>
    /\ UNCHANGED procVars

\* load_data: the file cache is read, or GitHub is fetched and the file
\* written, or NexusDataLoadError is raised; the dict is then reset for the
\* loop.  loads counts the lists that load_data has got from a source since
\* the last refresh or clear.
LoadDataRead(t, github_ok) ==
    /\ pure.op = "nexus"
    /\ pure.threads[t].pc = "read"
    /\ IF pure.file_cache \/ github_ok
       THEN pure' = [pure EXCEPT
                !.file_cache = TRUE,
                !.items_by_id = {},
                !.loads = @ + 1,
                !.threads[t].pc = "fill", !.threads[t].next = 1]
       ELSE pure' = [pure EXCEPT !.threads[t].pc = "idle"]
    /\ UNCHANGED <<wishlists, profile_is_alt, config, cand>>
    /\ UNCHANGED procVars

\* one iteration of "for item in items: items_by_id[item_id] = item"
FillItem(t) ==
    /\ pure.op = "nexus"
    /\ pure.threads[t].pc = "fill"
    /\ pure.threads[t].next <= Len(NexusItems)
    /\ pure' = [pure EXCEPT
            !.items_by_id = @ \cup {NexusItems[pure.threads[t].next]},
            !.threads[t].next = @ + 1]
    /\ UNCHANGED <<wishlists, profile_is_alt, config, cand>>
    /\ UNCHANGED procVars

\* "_shared_cache.loaded = True" after the loop; a thread that came from a
\* lookup then reads the dict and returns
MarkLoaded(t) ==
    /\ pure.op = "nexus"
    /\ pure.threads[t].pc = "fill"
    /\ pure.threads[t].next > Len(NexusItems)
    /\ pure' = [pure EXCEPT
            !.loaded = TRUE,
            !.threads[t].pc = "idle", !.threads[t].next = 0,
            !.threads[t].found = pure.threads[t].looked \in pure.items_by_id]
    /\ UNCHANGED <<wishlists, profile_is_alt, config, cand>>
    /\ UNCHANGED procVars

\* refresh_data up to the fetch: _shared_cache.clear()
RefreshData(t) ==
    /\ pure.op = "nexus"
    /\ pure.threads[t].pc = "idle"
    /\ pure' = [pure EXCEPT
            !.loaded = FALSE, !.items_by_id = {}, !.loads = 0,
            !.threads[t] = [pc |-> "refetch", next |-> 0, looked |-> 0,
                            found |-> FALSE]]
    /\ UNCHANGED <<wishlists, profile_is_alt, config, cand>>
    /\ UNCHANGED procVars

\* refresh_data: _fetch_from_github answers or raises NexusDataLoadError
RefreshFetch(t, github_ok) ==
    /\ pure.op = "nexus"
    /\ pure.threads[t].pc = "refetch"
    /\ IF github_ok
       THEN pure' = [pure EXCEPT
                !.file_cache = TRUE,
                !.items_by_id = {},
                !.threads[t].pc = "fill", !.threads[t].next = 1]
       ELSE pure' = [pure EXCEPT !.threads[t].pc = "idle"]
    /\ UNCHANGED <<wishlists, profile_is_alt, config, cand>>
    /\ UNCHANGED procVars

\* clear_nexus_cache()
ClearNexusCache ==
    /\ pure.op = "nexus"
    /\ pure' = [pure EXCEPT !.loaded = FALSE, !.items_by_id = {}, !.loads = 0]
    /\ UNCHANGED <<wishlists, profile_is_alt, config, cand>>
    /\ UNCHANGED procVars

NexusNext ==
    \/ \E t \in NexusThreads, i \in NexusItemIds : GetItem(t, i)
    \/ \E t \in NexusThreads, ok \in BOOLEAN : LoadDataRead(t, ok)
    \/ \E t \in NexusThreads : FillItem(t)
    \/ \E t \in NexusThreads : MarkLoaded(t)
    \/ \E t \in NexusThreads : RefreshData(t)
    \/ \E t \in NexusThreads, ok \in BOOLEAN : RefreshFetch(t, ok)
    \/ ClearNexusCache

SpecNexus == NexusInit /\ [][NexusNext]_vars

(***************************************************************************)
(* WarcraftLogsClient.query: one client, one query call at a time.  The    *)
(* retry after HTTP 401 is a recursive call of query; the interpreter ends *)
(* a recursion that is too deep with RecursionError.                       *)
(***************************************************************************)
\* nested query calls the interpreter allows (scaled down)
RecursionLimit == 8

\* answers to the POST of a query
QueryAnswers == {"data", "graphql errors", "invalid json", "401", "500", "network error"}
\* answers of the token endpoint to authenticate()
TokenAnswers == {"granted", "refused", "network error", "invalid json", "no access_token"}

\* a client between two query calls; token is the state of _access_token
\* and _token_expires_at: "none", "valid" or "expired"
WclIdle(using_user_token, has_credentials, token) ==
    [op |-> "wcl", using_user_token |-> using_user_token,
     has_credentials |-> has_credentials, token |-> token,
     pc |-> "idle", depth |-> 0, requests |-> 0, reauths |-> 0,
     last_answer |-> None, token_answer |-> None, outcome |-> None]

\* is_authenticated(): user tokens count as valid whatever their age
is_authenticated(p) ==
    p.token # "none" /\ (p.using_user_token \/ p.token = "valid")

\* __init__: a configured user token selects user-token mode; in
\* client-credentials mode there is no token until authenticate
WclInit ==
    /\ FixedTables
    /\ ProcIdle
    /\ \E user \in BOOLEAN, creds \in BOOLEAN :
          pure = WclIdle(user, creds, IF user THEN "valid" ELSE "none")

\* set_user_token(token) between two queries
SetUserToken ==
    /\ pure.op = "wcl"
    /\ pure.pc = "idle"
    /\ ~pure.using_user_token
    /\ pure' = [pure EXCEPT !.using_user_token = TRUE, !.token = "valid"]
    /\ UNCHANGED <<wishlists, profile_is_alt, config, cand>>
    /\ UNCHANGED procVars

\* clear_user_token() between two queries
ClearUserToken ==
    /\ pure.op = "wcl"
    /\ pure.pc = "idle"
    /\ pure.using_user_token
    /\ pure' = [pure EXCEPT !.using_user_token = FALSE, !.token = "none"]
    /\ UNCHANGED <<wishlists, profile_is_alt, config, cand>>
    /\ UNCHANGED procVars

\* time passes _token_expires_at of a client-credentials token
TokenExpires ==
    /\ pure.op = "wcl"
    /\ pure.pc = "idle"
    /\ ~pure.using_user_token
    /\ pure.token = "valid"
    /\ pure' = [pure EXCEPT !.token = "expired"]
    /\ UNCHANGED <<wishlists, profile_is_alt, config, cand>>
    /\ UNCHANGED procVars

\* authenticate() up to its POST: raises without credentials
BeginAuthenticate(p) ==
    IF p.has_credentials THEN [p EXCEPT !.pc = "auth"]
    ELSE [p EXCEPT !.pc = "done", !.outcome = "WCLAuthenticationError"]

\* query up to a POST: _ensure_authenticated, which authenticates in
\* client-credentials mode when no valid token is held
StartQuery ==
    /\ pure.op = "wcl"
    /\ pure.pc = "idle"
    /\ pure' = IF is_authenticated(pure)
               THEN [pure EXCEPT !.pc = "post", !.depth = 1]
               ELSE BeginAuthenticate([pure EXCEPT !.depth = 1])
    /\ UNCHANGED <<wishlists, profile_is_alt, config, cand>>
    /\ UNCHANGED procVars

\* the token endpoint answers: the token is stored, and the query is posted
\* (by _ensure_authenticated's caller, or by the nested call of query after
\* a 401, which the interpreter refuses when the recursion is too deep)
AuthenticateAnswers(answer) ==
    /\ pure.op = "wcl"
    /\ pure.pc = "auth"
    /\ LET p == [pure EXCEPT !.token_answer = answer]
       IN  pure' = IF answer # "granted"
                   THEN [p EXCEPT !.pc = "done",
                                  !.outcome = "WCLAuthenticationError"]
                   ELSE IF p.requests = 0
                   THEN [p EXCEPT !.pc = "post", !.token = "valid"]
                   ELSE IF p.depth >= RecursionLimit
                   THEN [p EXCEPT !.pc = "done", !.token = "valid",
                                  !.outcome = "RecursionError"]
                   ELSE [p EXCEPT !.pc = "post", !.token = "valid",
                                  !.depth = @ + 1]
    /\ UNCHANGED <<wishlists, profile_is_alt, config, cand>>
    /\ UNCHANGED procVars

\* the handler of HTTP 401: in client-credentials mode the token is dropped
\* and authenticate() is called, to call query again
After401(p) ==
    IF p.using_user_token
    THEN [p EXCEPT !.pc = "done", !.outcome = "WCLAuthenticationError"]
    ELSE BeginAuthenticate([p EXCEPT !.token = "none", !.reauths = @ + 1])

\* requests.post answers (or fails) and query handles the answer
PostAnswers(answer) ==
    /\ pure.op = "wcl"
    /\ pure.pc = "post"
    /\ LET p == [pure EXCEPT !.requests = @ + 1, !.last_answer = answer]
       IN  pure' = CASE answer = "data" ->
                          [p EXCEPT !.pc = "done", !.outcome = "data"]
                     [] answer = "401" -> After401(p)
                     [] OTHER ->
                          [p EXCEPT !.pc = "done", !.outcome = "WCLQueryError"]
    /\ UNCHANGED <<wishlists, profile_is_alt, config, cand>>
    /\ UNCHANGED procVars

\* the call has returned or raised; the client is used for the next query
QueryReturns ==
    /\ pure.op = "wcl"
    /\ pure.pc = "done"
    /\ pure' = WclIdle(pure.using_user_token, pure.has_credentials, pure.token)
    /\ UNCHANGED <<wishlists, profile_is_alt, config, cand>>
    /\ UNCHANGED procVars

WclNext ==
    \/ SetUserToken
    \/ ClearUserToken
    \/ TokenExpires
    \/ StartQuery
    \/ \E a \in TokenAnswers : AuthenticateAnswers(a)
    \/ \E a \in QueryAnswers : PostAnswers(a)
    \/ QueryReturns

SpecWcl == WclInit /\ [][WclNext]_vars

(***************************************************************************)
(* Cancellation of GUI batch runs.  The page is built per browser client   *)
(* (@ui.page), so every client has its own Run and Cancel buttons, while   *)
(* _cancel_requested is one module-level flag.  run_lc_processing is a     *)
(* coroutine: runs of two clients interleave at its awaits (the item in    *)
(* run.io_bound, the delay, the save).  requested is a ghost: the runs     *)
(* whose client has clicked Cancel since the run began.                    *)
(***************************************************************************)
GuiClients == {"client 1", "client 2"}

\* a client whose run is not in progress
NoRun == [pc |-> "idle", i |-> 0, total |-> 0, cancelled |-> FALSE]

CancelInit ==
    /\ FixedTables
    /\ ProcIdle
    /\ pure = [op |-> "cancel",
               flag |-> FALSE,
               run |-> [c \in GuiClients |-> NoRun],
               requested |-> {}]

\* the head of "for i, item_name in enumerate(items)": the loop ends, or
\* breaks on is_cancel_requested(), or the next item is handed to
\* run.io_bound
LoopHeadOf(r, flag) ==
    IF r.i = r.total THEN [r EXCEPT !.pc = "save"]
    ELSE IF flag THEN [r EXCEPT !.pc = "save", !.cancelled = TRUE]
    ELSE [r EXCEPT !.pc = "item"]

\* on_run_click: run_lc_processing up to its first await; the flag is reset
\* before the inputs are validated and before the try block
StartRun(c, inputs_valid, total) ==
    /\ pure.op = "cancel"
    /\ pure.run[c].pc = "idle"
    /\ pure' = IF inputs_valid
               THEN [pure EXCEPT
                        !.flag = FALSE,
                        !.run[c] = LoopHeadOf([pc |-> "check", i |-> 0,
                                               total |-> total,
                                               cancelled |-> FALSE], FALSE)]
               ELSE [pure EXCEPT !.flag = FALSE]
    /\ UNCHANGED <<wishlists, profile_is_alt, config, cand>>
    /\ UNCHANGED procVars

\* process_item returns: the decision is appended, and the delay is awaited
\* unless this was the last item or a cancel is requested; without the delay
\* the loop goes on to its head at once
ItemProcessed(c) ==
    /\ pure.op = "cancel"
    /\ pure.run[c].pc = "item"
    /\ LET r == [pure.run[c] EXCEPT !.i = @ + 1]
       IN  pure' = [pure EXCEPT
               !.run[c] = IF r.i < r.total /\ ~pure.flag
                          THEN [r EXCEPT !.pc = "sleep"]
                          ELSE LoopHeadOf(r, pure.flag)]
    /\ UNCHANGED <<wishlists, profile_is_alt, config, cand>>
    /\ UNCHANGED procVars

\* asyncio.sleep(delay) is over: the loop goes on to its head
DelayOver(c) ==
    /\ pure.op = "cancel"
    /\ pure.run[c].pc = "sleep"
    /\ pure' = [pure EXCEPT !.run[c] = LoopHeadOf(pure.run[c], pure.flag)]
    /\ UNCHANGED <<wishlists, profile_is_alt, config, cand>>
    /\ UNCHANGED procVars

\* the decisions are saved (run.io_bound), then "finally" enables Run,
\* disables Cancel and resets the flag
FinishRun(c) ==
    /\ pure.op = "cancel"
    /\ pure.run[c].pc = "save"
    /\ pure' = [pure EXCEPT !.flag = FALSE,
                            !.run[c] = NoRun,
                            !.requested = @ \ {c}]
    /\ UNCHANGED <<wishlists, profile_is_alt, config, cand>>
    /\ UNCHANGED procVars

\* the client clicks its Cancel button, enabled while its run is in
\* progress; the click is handled while the run waits at an await
request_cancel(c) ==
    /\ pure.op = "cancel"
    /\ pure.run[c].pc \in {"item", "sleep", "save"}
    /\ pure' = [pure EXCEPT !.flag = TRUE, !.requested = @ \cup {c}]
    /\ UNCHANGED <<wishlists, profile_is_alt, config, cand>>
    /\ UNCHANGED procVars

CancelNext ==
    \/ \E c \in GuiClients, v \in BOOLEAN, n \in 1..MaxItems : StartRun(c, v, n)
    \/ \E c \in GuiClients : ItemProcessed(c)
    \/ \E c \in GuiClients : DelayOver(c)
    \/ \E c \in GuiClients : FinishRun(c)
    \/ \E c \in GuiClients : request_cancel(c)

SpecCancel == CancelInit /\ [][CancelNext]_vars

(***************************************************************************)
(* Claims about the candidate engine (SpecCand).                           *)
(***************************************************************************)
CandidateNames(res) == {res.candidates[i].name : i \in 1..Len(res.candidates)}

\* the ids, known to the catalog, of the names of the token group of a name
TokenGroupOf(item_name) ==
    LET toks  == {t \in 1..Len(TierTokens) : TokenMatches(TierTokens[t], item_name)}
        names == UNION { {TierTokens[t].token_name}
                         \cup SeqToSet(TierTokens[t].compatible_items) : t \in toks }
    IN  {get_item_id(n) : n \in names} \ {NoId}

IsTierTokenInput(item_name) ==
    /\ config.client_version = "tbc"
    /\ \E t \in 1..Len(TierTokens) : TokenMatches(TierTokens[t], item_name)

HiddenAlt(r) == ~config.show_alt_status /\ profile_is_alt[r]

\* C1 as claimed: a raider whose wishlist holds an entry of the resolved id
\* group with a received date on or before the reference date is not in the
\* returned candidate list, whatever their other entries for the group are.
C1_ReceivedRaiderExcluded_Original ==
    (cand.called /\ ~cand.raised) =>
        \A r \in Raiders :
            (\E i \in 1..Len(wishlists[r]) :
                /\ wishlists[r][i].item_id \in SeqToSet(cand.item_ids_to_check)
                /\ wishlists[r][i].received_at # NoDate
                /\ wishlists[r][i].received_at <= reference_date)
            => r \notin CandidateNames(cand)

\* an entry of the id group that the scan does not skip
OpenEntry(e) ==
    /\ e.item_id \in SeqToSet(cand.item_ids_to_check)
    /\ \/ e.received_at > reference_date
       \/ e.received_at = NoDate /\ ~e.is_received

\* an entry of the id group received on or before the reference date
DatedReceipt(e) ==
    /\ e.item_id \in SeqToSet(cand.item_ids_to_check)
    /\ e.received_at # NoDate
    /\ e.received_at <= reference_date

\* C1 as amended: a raider whose wishlist holds an entry of the resolved id
\* group with a received date on or before the reference date is not in the
\* returned candidate list, unless the wishlist also holds an entry of the
\* group that is not received (received date after the reference date, or
\* absent with the is_received flag unset).
C1_ReceivedRaiderExcluded ==
    (cand.called /\ ~cand.raised) =>
        \A r \in Raiders :
            (/\ \E i \in 1..Len(wishlists[r]) : DatedReceipt(wishlists[r][i])
             /\ \A i \in 1..Len(wishlists[r]) : ~OpenEntry(wishlists[r][i]))
            => r \notin CandidateNames(cand)

\* a raider left out for a receipt dated on the reference date itself, next
\* to a second entry of the group, while another raider is a candidate
C1_Witness ==
    /\ cand.called /\ ~cand.raised /\ cand.candidates # <<>>
    /\ \E r \in Raiders :
          /\ r \notin CandidateNames(cand)
          /\ Len(wishlists[r]) = 2
          /\ \A i \in 1..2 : wishlists[r][i].item_id \in SeqToSet(cand.item_ids_to_check)
          /\ \E i \in 1..2 : wishlists[r][i].received_at = reference_date

Matched(r) ==
    \E i \in 1..Len(wishlists[r]) :
        /\ wishlists[r][i].item_id \in SeqToSet(cand.item_ids_to_check)
        /\ ~(wishlists[r][i].received_at # NoDate
             /\ wishlists[r][i].received_at <= reference_date)
        /\ ~(wishlists[r][i].is_received /\ wishlists[r][i].received_at = NoDate)

\* C3: with show_alt_status disabled no raider flagged is_alt is a candidate
\* and every matched raider who is not an alt is kept.
C3_AltsHiddenMainsKept ==
    (cand.called /\ ~cand.raised /\ ~config.show_alt_status) =>
        /\ \A r \in CandidateNames(cand) : ~profile_is_alt[r]
        /\ \A r \in Raiders : (Matched(r) /\ ~profile_is_alt[r]) => r \in CandidateNames(cand)
        /\ Len(cand.candidates) = Cardinality({r \in Raiders : Matched(r) /\ ~profile_is_alt[r]})

\* three matched raiders, one of them an alt, two candidates
C3_Witness ==
    /\ cand.called /\ ~cand.raised /\ ~config.show_alt_status
    /\ Cardinality({r \in Raiders : Matched(r)}) = 3
    /\ Cardinality({r \in Raiders : Matched(r) /\ profile_is_alt[r]}) = 1
    /\ Len(cand.candidates) = 2

(***************************************************************************)
(* Claims about the processor (Spec).                                      *)
(***************************************************************************)
\* process_item has returned for an item that resolved and has no candidates
NoCandidatesReturn ==
    /\ pi = "returned"
    /\ cand.called /\ ~cand.raised /\ cand.candidates = <<>>

\* process_item has returned for an item that the catalog does not know
NotFoundReturn == pi = "returned" /\ cand.called /\ cand.raised

C5_CountsRecordedCalls ==
    /\ [](\A n \in TrackedNames :
            recorded[n] >= 1 =>
               get_candidate_allocations(session_allocations, {n})
                  = [k \in {n} |-> recorded[n]])
    /\ [][ResetSessionAllocations =>
            \A names \in SUBSET (TrackedNames \cup {<<"None">>}) :
               get_candidate_allocations(session_allocations', names) = EmptyDict]_vars

\* the same raider has been recorded twice on one table
C5_Witness ==
    /\ recorded[<<"Alice">>] = 2
    /\ get_candidate_allocations(session_allocations, {<<"Alice">>, <<"Bob">>})
          = [k \in {<<"Alice">>} |-> 2]

\* C6: every batch run (process_zone call or GUI run) starts with an empty
\* Session Allocation Table, and no prompt of a batch run shows a count that
\* this run did not record.
C6_BatchStartsEmpty ==
    /\ (driver \in {"zone", "gui"} /\ phase = "check" /\ decisions = <<>>)
          => session_allocations = EmptyDict
    /\ (driver \in {"zone", "gui"} /\ pi = "call") =>
          \A n \in DOMAIN call.session_lines :
             call.session_lines[n] <=
                Cardinality({i \in 1..Len(decisions) :
                               decisions[i].success /\ decisions[i].suggestion_1 = n})

\* C7: process_item(item, single_item_mode=True) neither reads nor changes
\* session_allocations: its prompt carries no session line and no step of the
\* call changes the table, whatever the reply.
C7_SingleItemBypassesTracker ==
    /\ [](driver = "single" => call.session_lines = EmptyDict)
    /\ [][driver = "single" => session_allocations' = session_allocations]_vars

\* C8: within one process_item call completion() is attempted at most 4 times;
\* a further attempt is made only after an attempt that failed with a
\* transient class, never after a success or another failure.
C8_BoundedRetries ==
    /\ [](call.attempts <= 4)
    /\ [][call'.attempts > call.attempts =>
            /\ call'.attempts = call.attempts + 1
            /\ call.attempts >= 1 =>
                  call.last_error \in
                     {"InternalServerError", "RateLimitError", "APIConnectionError"}]_vars

\* the fourth attempt of a call succeeded
C8_Witness ==
    pi = "returned" /\ call.attempts = 4 /\ decision.success

\* C9: process_item returns a LootDecision for every outcome; a failed one has
\* empty suggestions and rationale and a non-empty error, which after a failed
\* completion call is typed by the final failure class.
C9_FailureIsTypedDecision ==
    pi = "returned" =>
        /\ decision.item_name = call.item_name
        /\ decision.success = (decision.error = NoError)
        /\ ~decision.success =>
              /\ decision.suggestion_1 = <<>> /\ decision.suggestion_2 = <<>>
              /\ decision.suggestion_3 = <<>> /\ decision.rationale = <<>>
              /\ decision.error.prefix # "" /\ decision.error.detail # ""
              /\ call.attempts > 0 =>
                    decision.error.prefix =
                       CASE call.last_error = "RateLimitError" -> "Rate limit exceeded: "
                         [] call.last_error = "AuthenticationError" ->
                               "Invalid API key for provider: "
                         [] call.last_error = "APIConnectionError" ->
                               "Connection error to provider: "
                         [] OTHER -> "API error (provider): "
        /\ (call.attempts = 0) = (~call.success)

\* the retries of a call were used up by rate limiting
C9_Witness ==
    /\ pi = "returned" /\ ~decision.success
    /\ call.attempts = 4 /\ call.last_error = "RateLimitError"

\* C10: without cancellation a batch ends with exactly one decision per item,
\* in item order, whatever items failed; items after a failed item are
\* processed.
C10_OneDecisionPerItem ==
    /\ Len(decisions) <= Len(items)
    /\ \A i \in 1..Len(decisions) : decisions[i].item_name = items[i]
    /\ (phase = "done" /\ ~broke) => Len(decisions) = Len(items)

\* a batch whose first item failed and whose second item succeeded
C10_Witness ==
    /\ phase = "done" /\ ~broke /\ Len(items) = 2
    /\ ~decisions[1].success /\ decisions[2].success

\* a batch driver stands at the head of its loop with an item left
AtLoopHead == phase = "check" /\ Len(decisions) < Len(items)

\* C11: the cancel flag is evaluated before each item; once it is observed
\* true no further process_item call is started and the loop is left with the
\* decisions made so far; a process_item call in flight goes on to its return
\* whatever the flag is, and its decision is appended.
C11_CooperativeCancellation ==
    /\ [](broke => (phase = "done" /\ pi = "idle" /\ Len(decisions) < Len(items)))
    /\ [](pi # "idle" => (driver = "single" \/ phase = "item"))
    /\ [][(AtLoopHead /\ pi' # pi) => (driver = "zone" \/ ~cancel_requested)]_vars
    /\ [][(AtLoopHead /\ ((driver = "gui" /\ cancel_requested)
                          \/ (driver = "zone" /\ \E f \in BOOLEAN : LoopHead(TRUE, f))))
            => (broke' /\ phase' = "done" /\ pi' = "idle" /\ decisions' = decisions)]_vars
    /\ [][(pi \in {"call", "sleep"}) => (pi' \in {"call", "sleep", "returned"})]_vars
    /\ [][(phase = "item" /\ pi = "returned" /\ pi' # pi)
            => decisions' = Append(decisions, decision)]_vars

\* a GUI run of two items left through the cancellation break with the
\* decision of its first item
C11_Witness ==
    /\ driver = "gui" /\ phase = "done" /\ broke /\ cancel_requested
    /\ Len(items) = 2 /\ Len(decisions) = 1 /\ decisions[1].item_name = items[1]

(***************************************************************************)
(* Claims about the Response Parser (SpecParse).                           *)
(***************************************************************************)
\* _parse_response has returned for a text in the fixed format
ParsedFormat == pure.op = "parse" /\ pure.done /\ pure.input.format

\* C12 as claimed: for all names a, b, c (non-empty, no newline) and every
\* rationale r, the text "Suggestion 1: a\nSuggestion 2: b\nSuggestion 3: c\n
\* Rationale: r" parses to suggestion_1 = a, suggestion_2 = b, suggestion_3 = c
\* and rationale = r.
C12_RoundTrip_Original ==
    ParsedFormat =>
        /\ pure.output.suggestion_1 = pure.input.names[1]
        /\ pure.output.suggestion_2 = pure.input.names[2]
        /\ pure.output.suggestion_3 = pure.input.names[3]
        /\ pure.output.rationale = pure.input.rationale

\* a name that str.strip and the label search leave alone: it neither begins
\* with a colon or white space nor ends with white space, and holds none of
\* the words Suggestion and Rationale
PlainName(n) ==
    /\ n # <<>>
    /\ n[1] \notin {":", " ", "\t", "\n"} /\ n[Len(n)] \notin {" ", "\t", "\n"}
    /\ \A i \in 1..Len(n) :
          n[i] \notin {"\n", "Suggestion", "suggestion", "SUGGESTION",
                       "Rationale", "rationale", "RATIONALE"}

\* a rationale that str.strip and the separator run leave alone
PlainRationale(r) ==
    r = <<>> \/ (r[1] \notin {":", " ", "\t", "\n"} /\ r[Len(r)] \notin {" ", "\t", "\n"})

\* C12 as amended: the round trip holds for names that neither begin with a
\* colon or white space nor end with white space and hold neither label word,
\* and for a rationale (of one or several lines) that neither begins with a
\* colon or white space nor ends with white space; "None" is kept as a name.
C12_RoundTrip ==
    (/\ ParsedFormat
     /\ \A k \in 1..3 : PlainName(pure.input.names[k])
     /\ PlainRationale(pure.input.rationale)) =>
        /\ pure.output.suggestion_1 = pure.input.names[1]
        /\ pure.output.suggestion_2 = pure.input.names[2]
        /\ pure.output.suggestion_3 = pure.input.names[3]
        /\ pure.output.rationale = pure.input.rationale
        /\ pure.output.success

\* a name of two words, the literal None and a rationale of two lines came
\* back unchanged
C12_Witness ==
    /\ ParsedFormat
    /\ pure.input.names = << <<"Alice", " ", "2">>, <<"Bob">>, <<"None">> >>
    /\ pure.input.rationale = <<"Rule", "\n", "Rule">>
    /\ pure.output.suggestion_1 = <<"Alice", " ", "2">>
    /\ pure.output.suggestion_3 = <<"None">>
    /\ pure.output.rationale = <<"Rule", "\n", "Rule">>

\* the label "Suggestion <digit>" occurs in the text: the word, any white
\* space, the digit
SuggestionLabelOccurs(t, digit) ==
    \E i \in 1..Len(t), j \in 1..Len(t) :
        /\ i < j
        /\ t[i] \in {"Suggestion", "suggestion", "SUGGESTION"}
        /\ t[j] = digit
        /\ \A m \in (i + 1)..(j - 1) : t[m] \in {" ", "\t", "\n"}

RationaleLabelOccurs(t) ==
    \E i \in 1..Len(t) : t[i] \in {"Rationale", "rationale", "RATIONALE"}

\* C13: for every reply text _parse_response returns a decision (it does not
\* raise), and each of the four fields whose label does not occur in the text
\* is the empty string.
C13_MissingFieldsEmpty ==
    (pure.op = "parse" /\ pure.done) =>
        /\ pure.output.success /\ pure.output.error = NoError
        /\ ~SuggestionLabelOccurs(pure.input.text, "1") => pure.output.suggestion_1 = <<>>
        /\ ~SuggestionLabelOccurs(pure.input.text, "2") => pure.output.suggestion_2 = <<>>
        /\ ~SuggestionLabelOccurs(pure.input.text, "3") => pure.output.suggestion_3 = <<>>
        /\ ~RationaleLabelOccurs(pure.input.text) => pure.output.rationale = <<>>

\* a text with the first label only: one field is filled, three are empty
C13_Witness ==
    /\ pure.op = "parse" /\ pure.done
    /\ pure.input.text = <<"Suggestion", "1", ":", "Bob">>
    /\ pure.output.suggestion_1 = <<"Bob">>
    /\ pure.output.suggestion_2 = <<>> /\ pure.output.suggestion_3 = <<>>
    /\ pure.output.rationale = <<>>

(***************************************************************************)
(* Claims about the simple policy rules (SpecRules).                       *)
(***************************************************************************)
\* the metrics that are enabled: the toggle is on and, for the ilvl
\* comparison and the tier token counts, currently-equipped is on as well
RuleMetricEnabled(cfg, m) ==
    \/ m = "attendance" /\ cfg.show_attendance
    \/ m = "recent_loot" /\ cfg.show_recent_loot
    \/ m = "wishlist_position" /\ cfg.show_wishlist_position
    \/ m = "parses" /\ cfg.show_parses
    \/ m = "ilvl_comparison" /\ cfg.currently_equipped_enabled /\ cfg.show_ilvl_comparisons
    \/ m = "tier_token_counts" /\ cfg.currently_equipped_enabled /\ cfg.show_tier_token_counts
    \/ m = "last_item_received" /\ cfg.show_last_item_received

RuleMetrics ==
    {"attendance", "recent_loot", "wishlist_position", "parses",
     "ilvl_comparison", "tier_token_counts", "last_item_received"}

\* positions of a metric in a list
PositionsOf(list, m) == {k \in 1..Len(list) : list[k] = m}

\* C14: one rule per enabled metric and none for a disabled one, in the order
\* of the configured priority list, numbered RULE 1..RULE k without gaps;
\* with the order [wishlist_position, attendance] and those two enabled the
\* output is RULE 1 (wishlist sentence), RULE 2 (attendance sentence).
C14_OneRulePerEnabledMetric ==
    (pure.op = "rules" /\ pure.done) =>
        LET cfg   == pure.input
            rules == pure.output
            metricOf == [k \in 1..Len(rules) |-> rules[k].metric]
        IN  /\ \A k \in 1..Len(rules) : rules[k].rule_num = k
            /\ \A m \in RuleMetrics :
                  Cardinality(PositionsOf(metricOf, m))
                     = IF RuleMetricEnabled(cfg, m) THEN 1 ELSE 0
            /\ \A k \in 1..Len(rules) : rules[k].metric \in RuleMetrics
            /\ \A i, j \in 1..Len(rules) :
                  (/\ PositionsOf(cfg.metric_order, rules[i].metric) # {}
                   /\ PositionsOf(cfg.metric_order, rules[j].metric) # {}
                   /\ \E a \in PositionsOf(cfg.metric_order, rules[i].metric) :
                         \A b \in PositionsOf(cfg.metric_order, rules[j].metric) : a < b)
                  => i < j
            /\ (/\ cfg.metric_order = <<"wishlist_position", "attendance">>
                /\ \A m \in RuleMetrics :
                      RuleMetricEnabled(cfg, m) <=> m \in {"wishlist_position", "attendance"})
               => rules =
                    << [rule_num |-> 1, metric |-> "wishlist_position",
                        sentence |-> "Give preference to raiders who ranked this item higher on their wishlist (lower position = more desired)."],
                       [rule_num |-> 2, metric |-> "attendance",
                        sentence |-> "Give preference to raiders with higher attendance percentage."] >>

(***************************************************************************)
(* Claims about the attendance percentage (SpecAttendance).                *)
(***************************************************************************)
\* rows of the table inside the window
InWindow(in) ==
    {r \in in.attendance_df :
        /\ r.raid_date >= in.reference_date - in.lookback_days
        /\ r.raid_date <= in.reference_date}

\* C15: with every credit in [0, 1] the attendance percentage lies in
\* [0, 100] and equals the raider's credits in the window divided by the
\* number of distinct raid dates in the window, times 100; a window without a
\* raid gives exactly 0.
C15_AttendanceInRange ==
    (pure.op = "attendance" /\ pure.done) =>
        LET in    == pure.input
            out   == pure.output
            dates == {r.raid_date : r \in InWindow(in)}
            mine  == {r \in InWindow(in) :
                         LowerName(r.character_name) = LowerName(in.character_name)}
        IN  /\ out.den > 0
            /\ 0 <= out.num
            /\ out.num <= 100 * out.den
            /\ dates = {} => out = ZeroPercent
            /\ dates # {} =>
                  out.num * CreditUnit * Cardinality(dates)
                     = 100 * SumCredit(mine) * out.den

(***************************************************************************)
(* Claims about the Item Catalog Resolver (SpecCand).                      *)
(***************************************************************************)
\* the names of a tier-token group and of an exchange group
TokenGroupNames(t) == {t.token_name} \cup SeqToSet(t.compatible_items)
ExchangeGroupNames(e) == {e.source_name} \cup SeqToSet(e.items)
NameAmong(names, item_name) == \E n \in names : Lower(n) = Lower(item_name)

\* the catalog records that carry a name; ids of the names the catalog knows
CatalogRecords(item_name) ==
    {i \in 1..Len(Catalog) : Lower(Catalog[i].name) = Lower(item_name)}
CatalogIdsOf(names) ==
    {Catalog[i].itemId : i \in UNION {CatalogRecords(n) : n \in names}}

IsTokenName(item_name) ==
    \E i \in 1..Len(TierTokens) : NameAmong(TokenGroupNames(TierTokens[i]), item_name)
IsExchangeName(item_name) ==
    \E i \in 1..Len(ExchangeItems) :
        NameAmong(ExchangeGroupNames(ExchangeItems[i]), item_name)
IsTbc == config.client_version \in {"tbc", "tbc anniversary"}

\* the result carries the tag, slot and item level of a token
TaggedAsToken(t) ==
    /\ cand.tag = "TOKEN"
    /\ cand.item_slot = t.slot
    /\ cand.item_ilvl = t.ilvl

TaggedAsExchange(e) ==
    /\ cand.tag = "EXCHANGE"
    /\ cand.item_ilvl = e.ilvl

TaggedAsSingle ==
    /\ cand.tag = "SINGLE"
    /\ cand.item_ids_to_check = <<cand.item_id>>
    /\ \E i \in CatalogRecords(cand.item_name) :
          /\ cand.item_id = Catalog[i].itemId
          /\ cand.item_slot = Catalog[i].slot
          /\ cand.item_ilvl = Catalog[i].itemLevel

\* C16 as stated: a name of a tier-token group is resolved as that token,
\* with the token's slot, item level and whole id group, also when the name
\* is a plain catalog item; otherwise a name of an exchange group is resolved
\* as that exchange item; only otherwise as the single catalog item.
C16_ResolutionOrder_Original ==
    cand.called =>
        /\ \A i \in 1..Len(TierTokens) :
              NameAmong(TokenGroupNames(TierTokens[i]), cand.item_name) =>
                  /\ ~cand.raised
                  /\ TaggedAsToken(TierTokens[i])
                  /\ Cardinality(SeqToSet(cand.item_ids_to_check))
                        = Cardinality(TokenGroupNames(TierTokens[i]))
        /\ ~IsTokenName(cand.item_name) =>
              \A i \in 1..Len(ExchangeItems) :
                  NameAmong(ExchangeGroupNames(ExchangeItems[i]), cand.item_name) =>
                      /\ ~cand.raised
                      /\ TaggedAsExchange(ExchangeItems[i])
                      /\ Cardinality(SeqToSet(cand.item_ids_to_check))
                            = Cardinality(ExchangeGroupNames(ExchangeItems[i]))
        /\ (/\ ~IsTokenName(cand.item_name) /\ ~IsExchangeName(cand.item_name)
            /\ ~cand.raised)
           => TaggedAsSingle

\* C16 (amended): the token and exchange tables are consulted on a TBC client
\* only; the id group holds the ids of the names the catalog knows; the
\* input name itself must be in the catalog or the call raises; an exchange
\* item takes its slot from the catalog.
C16_ResolutionOrder ==
    cand.called =>
        /\ cand.raised <=> CatalogRecords(cand.item_name) = {}
        /\ ~cand.raised =>
              /\ (IsTbc /\ IsTokenName(cand.item_name)) =>
                    \A i \in 1..Len(TierTokens) :
                        NameAmong(TokenGroupNames(TierTokens[i]), cand.item_name) =>
                            /\ TaggedAsToken(TierTokens[i])
                            /\ SeqToSet(cand.item_ids_to_check)
                                  = CatalogIdsOf(TokenGroupNames(TierTokens[i]))
              /\ (IsTbc /\ ~IsTokenName(cand.item_name)
                        /\ IsExchangeName(cand.item_name)) =>
                    \A i \in 1..Len(ExchangeItems) :
                        NameAmong(ExchangeGroupNames(ExchangeItems[i]), cand.item_name) =>
                            /\ TaggedAsExchange(ExchangeItems[i])
                            /\ SeqToSet(cand.item_ids_to_check)
                                  = CatalogIdsOf(ExchangeGroupNames(ExchangeItems[i]))
                            /\ \E k \in CatalogRecords(cand.item_name) :
                                  cand.item_slot = Catalog[k].slot
              /\ (~IsTbc \/ (~IsTokenName(cand.item_name)
                             /\ ~IsExchangeName(cand.item_name)))
                    => TaggedAsSingle

\* a compatible item that is also a plain catalog item with its own item
\* level is resolved as the token
C16_Witness ==
    /\ cand.called /\ ~cand.raised
    /\ cand.item_name = "Cataclysm Helm"
    /\ cand.tag = "TOKEN"
    /\ cand.item_ilvl # get_item_level(cand.item_id)
    /\ Len(cand.item_ids_to_check) > 1

\* the token whose group holds the input name of a result tagged as token
ResolvedTokens ==
    {i \in 1..Len(TierTokens) :
        NameAmong(TokenGroupNames(TierTokens[i]), cand.item_name)}
IsResolvedToken == cand.called /\ ~cand.raised /\ cand.tag = "TOKEN"

\* C17 as stated: the id set of a resolved tier token holds the id of the
\* token and the id of every compatible item listed for it, none dropped,
\* and no id of another token group.
C17_TokenIdSetComplete_Original ==
    IsResolvedToken =>
        \A i \in ResolvedTokens :
            /\ \A n \in TokenGroupNames(TierTokens[i]) :
                  \E k \in CatalogRecords(n) :
                      Catalog[k].itemId \in SeqToSet(cand.item_ids_to_check)
            /\ \A j \in 1..Len(TierTokens) :
                  j # i => SeqToSet(cand.item_ids_to_check)
                              \cap CatalogIdsOf(TokenGroupNames(TierTokens[j])) = {}

\* C17 (amended): the id set holds the id of the token and of every
\* compatible item that the item catalog knows by name; a compatible item
\* missing from the catalog contributes no id; no id of another token group
\* and no other id is in the set.
C17_TokenIdSetComplete ==
    IsResolvedToken =>
        \A i \in ResolvedTokens :
            /\ \A n \in TokenGroupNames(TierTokens[i]) :
                  CatalogRecords(n) # {} =>
                      \E k \in CatalogRecords(n) :
                          Catalog[k].itemId \in SeqToSet(cand.item_ids_to_check)
            /\ SeqToSet(cand.item_ids_to_check)
                  \subseteq CatalogIdsOf(TokenGroupNames(TierTokens[i]))
            /\ \A j \in 1..Len(TierTokens) :
                  j # i => SeqToSet(cand.item_ids_to_check)
                              \cap CatalogIdsOf(TokenGroupNames(TierTokens[j])) = {}

\* the token name resolves to the ids of the token and of its compatible
\* item, while another token group has ids of its own
C17_Witness ==
    /\ IsResolvedToken
    /\ cand.item_name = "HELM OF THE FALLEN DEFENDER"
    /\ cand.item_ids_to_check = <<1, 2>>
    /\ \E j \in 1..Len(TierTokens) :
          j \notin ResolvedTokens /\ CatalogIdsOf(TokenGroupNames(TierTokens[j])) # {}

(***************************************************************************)
(* Claims about the order of the candidate list (SpecCand).                *)
(***************************************************************************)
\* C18: the returned candidate list is ordered by wishlist rank: of every two
\* consecutive candidates the earlier one's wishlist order is less than or
\* equal to the later one's.
C18_OrderedByWishlistRank ==
    (cand.called /\ ~cand.raised) =>
        \A k \in 1..(Len(cand.candidates) - 1) :
            cand.candidates[k].wishlist_order <= cand.candidates[k + 1].wishlist_order

\* position of a raider in the wishlist table
TablePosition(r) == CHOOSE k \in 1..Len(RaiderOrder) : RaiderOrder[k] = r

\* three candidates, two of them with equal rank, returned in another order
\* than that of the wishlist table
C18_Witness ==
    /\ cand.called /\ ~cand.raised
    /\ Len(cand.candidates) = 3
    /\ \E k \in 1..2 :
          cand.candidates[k].wishlist_order < cand.candidates[k + 1].wishlist_order
    /\ \E k \in 1..2 :
          cand.candidates[k].wishlist_order = cand.candidates[k + 1].wishlist_order
    /\ \E k \in 1..2 :
          TablePosition(cand.candidates[k].name)
             > TablePosition(cand.candidates[k + 1].name)

Composed == pure.op = "prompt" /\ pure.done
HasClause(c) == \E k \in 1..Len(pure.output.system_prompt) : pure.output.system_prompt[k] = c
\* a candidate block of the user prompt carries a line with that label
BlockLine(label) ==
    \E k \in 1..Len(pure.output.user_prompt) :
        pure.output.user_prompt[k].block > 0 /\ pure.output.user_prompt[k].label = label
HeaderLine(label) ==
    \E k \in 1..Len(pure.output.user_prompt) :
        pure.output.user_prompt[k].block = 0 /\ pure.output.user_prompt[k].label = label

\* C20 as stated: a contextual clause is in the system prompt only if the
\* user prompt of the item carries the data it explains: the wishlist clause
\* a wishlist line, the upgrade clause an upgrade-size line, the session
\* clause a session-allocation line, the custom-note clause a custom note,
\* the guild-priority clause the guild priority note.
C20_ClauseOnlyWithData_Original ==
    Composed =>
        /\ HasClause("_WISHLIST_POSITION_CONTEXT") => BlockLine("Wishlist Position")
        /\ HasClause("_ILVL_COMPARISON_CONTEXT") => BlockLine("Upgrade size")
        /\ HasClause("_SESSION_TRACKING_CONTEXT") => BlockLine("Items assigned this session")
        /\ HasClause("_CUSTOM_NOTE_CONTEXT") => BlockLine("Custom Note")
        /\ HasClause("_GUILD_PRIORITY_NOTE_CONTEXT") => HeaderLine("Guild Priority Note")

\* C20 (amended): the custom-note and guild-priority clauses follow the data
\* of the user prompt; the wishlist clause follows the wishlist metric, whose
\* line every block then carries; the upgrade clause follows the ilvl
\* comparison metric, and the blocks carry an upgrade-size line only when the
\* item level is known as well; the session clause follows the mode: it is
\* there in every batch call, with or without a session-allocation line, and
\* never in single-item mode, where no block carries such a line.
C20_ClauseOnlyWithData ==
    Composed =>
        LET in == pure.input
            ilvl_metric == in.cfg.currently_equipped_enabled /\ in.cfg.show_ilvl_comparisons
        IN  /\ HasClause("_CUSTOM_NOTE_CONTEXT") <=> BlockLine("Custom Note")
            /\ HasClause("_GUILD_PRIORITY_NOTE_CONTEXT") <=> HeaderLine("Guild Priority Note")
            /\ HasClause("_WISHLIST_POSITION_CONTEXT") <=> in.cfg.show_wishlist_position
            /\ HasClause("_WISHLIST_POSITION_CONTEXT") <=> BlockLine("Wishlist Position")
            /\ HasClause("_ILVL_COMPARISON_CONTEXT") <=> ilvl_metric
            /\ BlockLine("Upgrade size") <=> (ilvl_metric /\ in.item_ilvl # 0)
            /\ HasClause("_SESSION_TRACKING_CONTEXT") <=> ~in.single_item_mode
            /\ BlockLine("Items assigned this session") <=>
                  (/\ ~in.single_item_mode
                   /\ \E k \in 1..Len(in.candidates) :
                         in.candidates[k] \in DOMAIN in.session_allocations)

\* a batch call whose prompt has no session-allocation line and yet the
\* session clause, next to a custom note with its clause
C20_Witness ==
    /\ Composed
    /\ ~pure.input.single_item_mode
    /\ HasClause("_SESSION_TRACKING_CONTEXT")
    /\ ~BlockLine("Items assigned this session")
    /\ HasClause("_CUSTOM_NOTE_CONTEXT") /\ BlockLine("Custom Note")
    /\ ~HasClause("_GUILD_PRIORITY_NOTE_CONTEXT")
    /\ Len(pure.input.candidates) = 2

(***************************************************************************)
(* Claims about the reads of the metrics (SpecReads).                      *)
(***************************************************************************)
\* C21: a disabled metric causes no read of its data source: attendance off
\* means no read of the attendance table, recent loot and last item received
\* off no read of the received-loot table, ilvl upgrade and tier token count
\* off no load of the gear snapshot, notes off no read of the notes file,
\* parses off no parse lookup.
C21_DisabledMetricNoRead ==
    (pure.op = "reads" /\ pure.done) =>
        LET in == pure.input
        IN  /\ ~in.show_attendance => "attendance" \notin pure.output
            /\ (~in.show_recent_loot /\ ~in.show_last_item_received)
                  => "received" \notin pure.output
            /\ (~(in.currently_equipped_enabled /\ in.show_ilvl_comparisons)
                /\ ~(in.currently_equipped_enabled /\ in.show_tier_token_counts))
                  => "gear" \notin pure.output
            /\ ~in.show_raider_notes => "notes" \notin pure.output
            /\ ~in.show_parses => "parses" \notin pure.output

(***************************************************************************)
(* Claims about received entries and single listing (SpecCand).            *)
(***************************************************************************)
\* an entry of the id group with the is_received flag set and no date
FlaggedWithoutDate(e) ==
    /\ e.item_id \in SeqToSet(cand.item_ids_to_check)
    /\ e.is_received
    /\ e.received_at = NoDate

BackoffSeconds(k) == CASE k = 1 -> 2 [] k = 2 -> 4 [] k = 3 -> 8 [] OTHER -> 0

\* C23: the wait before the k-th retry (k = 1, 2, 3) is 2, 4, 8 seconds; a
\* wait follows only a transient failure that is not the last attempt, none
\* follows a success, a non-transient failure or the last failed attempt; one
\* process_item call sleeps at most 14 seconds.
C23_BackoffSchedule ==
    /\ [](call.slept <= 14)
    /\ [][(pi = "sleep" /\ pi' = "call") =>
              /\ call'.attempt \in 1..3
              /\ call'.last_delay = BackoffSeconds(call'.attempt)
              /\ call'.slept = call.slept + BackoffSeconds(call'.attempt)]_vars
    /\ [][(pi = "call" /\ pi' = "sleep") =>
              /\ call'.last_error \in
                    {"InternalServerError", "RateLimitError", "APIConnectionError"}
              /\ call'.attempts <= 3]_vars
    /\ [][(pi = "call" /\ pi' = "returned") => call'.slept = call.slept]_vars
    /\ [](pi = "returned" /\ call.attempts > 0 =>
              call.slept = CASE call.attempts = 1 -> 0
                             [] call.attempts = 2 -> 2
                             [] call.attempts = 3 -> 6
                             [] OTHER -> 14)

\* four transient failures: three waits, 14 seconds, a failed decision
C23_Witness ==
    /\ pi = "returned" /\ call.attempts = 4 /\ ~decision.success
    /\ call.slept = 14 /\ call.last_delay = 8

\* the table new is the table old with the count of one key raised by one
OneIncrement(old, new, key) ==
    /\ DOMAIN new = DOMAIN old \cup {key}
    /\ new[key] = (IF key \in DOMAIN old THEN old[key] ELSE 0) + 1
    /\ \A k \in DOMAIN old : k # key => new[k] = old[k]

InBatchItem == driver \in {"zone", "gui"} /\ phase = "item"

CandidateKeys == {<<cand.candidates[i].name>> : i \in 1..Len(cand.candidates)}

CountOf(table, key) == IF key \in DOMAIN table THEN table[key] ELSE 0

\* C25: in batch mode the prompt of an item has a session-allocation line for
\* a candidate exactly when the tracker's count for that name is above zero,
\* the line shows that count, and no line is about a raider who is not a
\* candidate of this item.
C25_SessionLinePerCandidate ==
    (driver \in {"zone", "gui"} /\ pi = "call") =>
        /\ \A c \in CandidateKeys :
              /\ (c \in DOMAIN call.session_lines)
                    = (CountOf(session_allocations, c) > 0)
              /\ c \in DOMAIN call.session_lines =>
                    call.session_lines[c] = session_allocations[c]
        /\ DOMAIN call.session_lines \subseteq CandidateKeys

\* the table counts a candidate of this item and a raider who is none
C25_Witness ==
    /\ driver \in {"zone", "gui"} /\ pi = "call"
    /\ \E c \in CandidateKeys : c \in DOMAIN call.session_lines
    /\ \E k \in DOMAIN session_allocations : k \notin CandidateKeys
    /\ \E c \in CandidateKeys : c \notin DOMAIN session_allocations

(***************************************************************************)
(* Claim about single listing (SpecCand).                                  *)
(***************************************************************************)
\* positions of the entries of r's wishlist that are of the id group and are
\* not passed over as received
CountingEntries(r) ==
    {i \in 1..Len(wishlists[r]) :
        /\ wishlists[r][i].item_id \in SeqToSet(cand.item_ids_to_check)
        /\ ~(/\ wishlists[r][i].received_at # NoDate
             /\ wishlists[r][i].received_at <= reference_date)
        /\ ~(wishlists[r][i].is_received /\ wishlists[r][i].received_at = NoDate)}

\* C26: a raider is in the candidate list at most once, however many entries
\* of the wishlist match the item; the rank and the offspec flag of the
\* candidate are those of the first matching entry that is not passed over as
\* received.
C26_ListedOnceFirstEntry ==
    (cand.called /\ ~cand.raised) =>
        /\ \A i, j \in 1..Len(cand.candidates) :
              cand.candidates[i].name = cand.candidates[j].name => i = j
        /\ \A k \in 1..Len(cand.candidates) :
              LET r == cand.candidates[k].name
              IN  /\ CountingEntries(r) # {}
                  /\ cand.candidates[k].wishlist_order
                        = wishlists[r][Min(CountingEntries(r))].order
                  /\ cand.candidates[k].is_offspec
                        = wishlists[r][Min(CountingEntries(r))].is_offspec

\* a candidate with two counting entries that differ in rank and in offspec
C26_Witness ==
    /\ cand.called /\ ~cand.raised
    /\ \E k \in 1..Len(cand.candidates) :
          LET r == cand.candidates[k].name
          IN  /\ Cardinality(CountingEntries(r)) = 2
              /\ wishlists[r][1].order # wishlists[r][2].order
              /\ wishlists[r][1].is_offspec # wishlists[r][2].is_offspec

(***************************************************************************)
(* Claim about the parse cache (SpecParseCache).                           *)
(***************************************************************************)
\* a pair for which a call has returned since the last clear is cached
ReturnedPairsCached ==
    pure.op = "cache" =>
        \A p \in pure.returned : pure.parse_cache[p] # NotCached

\* a call for a pair for which a call has returned since the last clear makes
\* no service call and returns the entry of the cache
LaterCallsServedFromCache ==
    [][\A t \in ParseCallers :
          (/\ pure.callers[t].pc = "idle"
           /\ pure'.callers[t] # pure.callers[t]
           /\ <<pure'.callers[t].zone_id, pure'.callers[t].raider_name>>
                 \in pure.returned)
          => /\ pure'.callers[t].pc = "idle"
             /\ ~pure'.callers[t].fetched
             /\ pure'.fetches = pure.fetches
             /\ pure'.callers[t].result
                   = pure.parse_cache[<<pure'.callers[t].zone_id,
                                        pure'.callers[t].raider_name>>]]_vars

\* no pair is fetched twice between two clears
AtMostOneFetch ==
    pure.op = "cache" => \A p \in ParsePairs : pure.fetches[p] <= 1

\* C27: after get_or_fetch_parse has returned once for a pair (zone, raider),
\* the pair is cached and every later call for it returns the cached entry
\* without a service call, until clear_cache; hence a pair is fetched at most
\* once between two clears.
C27_OneFetchPerPair ==
    /\ []ReturnedPairsCached
    /\ LaterCallsServedFromCache
    /\ []AtMostOneFetch

(***************************************************************************)
(* Claim about the shared item catalog (SpecNexus).                        *)
(***************************************************************************)
\* load_data reads a source at most once between refreshes and clears
LoadedAtMostOnce == pure.op = "nexus" => pure.loads <= 1

\* a cache marked loaded holds every record of the catalog
LoadedMeansFilled ==
    (pure.op = "nexus" /\ pure.loaded) => pure.items_by_id = NexusItemIds

\* a lookup on a loaded cache reads no source and answers from the dict
LookupsServedFromMemory ==
    [][\A t \in NexusThreads :
          (/\ pure.loaded
           /\ pure.threads[t].pc = "idle"
           /\ pure'.threads[t] # pure.threads[t]
           /\ pure'.threads[t].pc # "refetch")
          => /\ pure'.threads[t].pc = "idle"
             /\ pure'.loads = pure.loads
             /\ pure'.threads[t].found
                   = (pure'.threads[t].looked \in pure.items_by_id)]_vars

\* the records of a loaded cache stay as they are while it stays loaded
RecordsStayUnchanged ==
    [][(pure.loaded /\ pure'.loaded) => pure'.items_by_id = pure.items_by_id]_vars

\* C28: the shared catalog is loaded at most once between explicit refreshes;
\* after a successful load_data every lookup of any manager is served from
\* the shared in-memory cache, the records stay unchanged until refresh_data
\* or clear_nexus_cache, and no lookup sees a cache that is marked loaded but
\* only partly filled.
C28_CatalogLoadedOnce ==
    /\ []LoadedAtMostOnce
    /\ []LoadedMeansFilled
    /\ LookupsServedFromMemory
    /\ RecordsStayUnchanged

(***************************************************************************)
(* Claim about WarcraftLogsClient.query (SpecWcl).                         *)
(***************************************************************************)
\* C29: in client-credentials mode query re-authenticates and retries once on
\* HTTP 401; a second 401 ends the call with an error without another
\* re-authentication, so a query call makes at most two requests; in
\* user-token mode a 401 is never retried and ends with
\* WCLAuthenticationError.
C29_RetryOnceOn401 ==
    pure.op = "wcl" =>
        /\ pure.requests <= 2
        /\ pure.reauths <= 1
        /\ (pure.requests = 2 /\ pure.last_answer = "401") =>
              (pure.pc = "done" /\ pure.outcome \notin {None, "data"})
        /\ pure.using_user_token =>
              /\ pure.requests <= 1
              /\ pure.last_answer = "401" =>
                    (pure.pc = "done" /\ pure.outcome = "WCLAuthenticationError")

(***************************************************************************)
(* Claim about the cancellation of GUI batch runs (SpecCancel).            *)
(***************************************************************************)
\* a run whose cancellation has been requested starts no further item
CancelNeverLost ==
    [][\A c \in GuiClients :
          (c \in pure.requested /\ pure.run[c].pc # "item")
          => pure'.run[c].pc # "item"]_vars

\* a run is cancelled only on a request made for it
CancelStopsOnlyItsRun ==
    pure.op = "cancel" =>
        \A c \in GuiClients : pure.run[c].cancelled => c \in pure.requested

\* C30: a cancel request made during a GUI batch run is never lost and never
\* affects another run: the run it was made for starts no further item, even
\* if another run starts or finishes before the flag is next checked, and
\* the request does not stop a different run that is in progress.
C30_CancelPerRun ==
    /\ CancelNeverLost
    /\ []CancelStopsOnlyItsRun
====
